---- MODULE Spec2Model ----
(***************************************************************************)
(* Streaming event normalisation and rendering of                          *)
(* 1_azure_openai_chat_agent.py: print_agent_event (the event classifier)  *)
(* and the interactive loop of main (call accumulator, reasoning phase,    *)
(* live display, finalized panels).                                        *)
(*                                                                         *)
(* Representation.  A Python str is a sequence of chunk tokens, "" is <<>>,*)
(* + is \o.  None and "" are both falsy and are never told apart by the    *)
(* code modelled here, so a None str is <<>> and a None name/author is "". *)
(* A dict that keeps insertion order is a sequence of [key, ...] records.  *)
(***************************************************************************)
EXTENDS Integers, Sequences, FiniteSets, TLC

\* ------------------------------------------------------------------ bounds
\* An event weighs as many as it has content items (one when it has none).
MaxEvents == 4          \* weight folded in one session under Spec
MaxCallEvents == 5      \* weight folded in one session under SpecCalls
MaxItems == 2           \* weight folded in one session under SpecClassify
MaxTurns == 2           \* turns started in one session
MaxScenarioEvents == 5  \* weight folded in one session under SpecScenario
MaxScriptEvents == 3    \* the same under SpecScripts and SpecAll
MaxMagenticEvents == 4  \* events handled in one run under SpecMagentic

\* ------------------------------------------------------- usage payloads
\* A token count of the provider's usage object.
Missing == 0 - 2        \* the attribute / the dict key does not exist
NoneVal == 0 - 1        \* the attribute exists and is None

Truthy(v) == v > 0      \* Python truth of an int-or-None value

NoUsageObj ==
  [input_tokens |-> Missing, prompt_tokens |-> Missing,
   output_tokens |-> Missing, completion_tokens |-> Missing,
   total_tokens |-> Missing, otd_reasoning |-> Missing,
   ctd_reasoning |-> Missing]

\* raw_representation of a UsageContent.  shape: "none" (no raw
\* representation), "nousage" (no usage object in it), "response"
\* (raw.response.usage), "direct" (raw.usage).
NoRaw == [shape |-> "none", usage |-> NoUsageObj]

\* usage_info == {} : no key exists.
EmptyUsageInfo ==
  [input_tokens |-> Missing, output_tokens |-> Missing,
   total_tokens |-> Missing, reasoning_tokens |-> Missing]

\* result['usage'] of a result that has no 'usage' key.
NoUsageInfo == EmptyUsageInfo

\* getattr(obj, name, default)
GetAttr(v, default) == IF v = Missing THEN default ELSE v

\* a or b
PyOr(a, b) == IF Truthy(a) THEN a ELSE b

\* ExtractUsage that fills a summary of zeros when there is no usage object
ExtractUsage_ZeroSummary(raw) ==
  IF raw.shape \in {"none", "nousage"}
  THEN [input_tokens |-> 0, output_tokens |-> 0, total_tokens |-> 0,
        reasoning_tokens |-> Missing]
  ELSE LET usage == raw.usage
           input_tokens == PyOr(GetAttr(usage.input_tokens, NoneVal),
                                GetAttr(usage.prompt_tokens, 0))
           output_tokens == PyOr(GetAttr(usage.output_tokens, NoneVal),
                                 GetAttr(usage.completion_tokens, 0))
           rt1 == IF usage.otd_reasoning # Missing
                  THEN usage.otd_reasoning ELSE 0
           rt2 == IF usage.ctd_reasoning # Missing /\ ~Truthy(rt1)
                  THEN usage.ctd_reasoning ELSE rt1
       IN [input_tokens |-> input_tokens, output_tokens |-> output_tokens,
           total_tokens |-> GetAttr(usage.total_tokens, 0),
           reasoning_tokens |-> IF Truthy(rt2) THEN rt2 ELSE Missing]

ExtractUsage(raw) ==
  IF raw.shape \in {"none", "nousage"} THEN EmptyUsageInfo
  ELSE
    LET usage == raw.usage
        input_tokens == PyOr(GetAttr(usage.input_tokens, NoneVal),
                             GetAttr(usage.prompt_tokens, 0))
        output_tokens == PyOr(GetAttr(usage.output_tokens, NoneVal),
                              GetAttr(usage.completion_tokens, 0))
        rt1 == IF usage.otd_reasoning # Missing
               THEN usage.otd_reasoning ELSE 0
        rt2 == IF usage.ctd_reasoning # Missing /\ ~Truthy(rt1)
               THEN usage.ctd_reasoning ELSE rt1
    IN [input_tokens |-> input_tokens,
        output_tokens |-> output_tokens,
        total_tokens |-> GetAttr(usage.total_tokens, 0),
        reasoning_tokens |-> IF Truthy(rt2) THEN rt2 ELSE Missing]

\* ---------------------------------------------------------- content items
Item(type, text, marker, name, arguments, call_id, result, raw) ==
  [type |-> type, text |-> text, marker |-> marker, name |-> name,
   arguments |-> arguments, call_id |-> call_id, result |-> result,
   raw |-> raw]

Reasoning(text, marker) ==
  Item("TextReasoningContent", text, marker, "", <<>>, "", <<>>, NoRaw)
Text(text) ==
  Item("TextContent", text, FALSE, "", <<>>, "", <<>>, NoRaw)
FunctionCall(call_id, name, arguments) ==
  Item("FunctionCallContent", <<>>, FALSE, name, arguments, call_id, <<>>, NoRaw)
FunctionResult(call_id, result) ==
  Item("FunctionResultContent", <<>>, FALSE, "", <<>>, call_id, result, NoRaw)
Usage(raw) ==
  Item("UsageContent", <<>>, FALSE, "", <<>>, "", <<>>, raw)

\* ------------------------------------------------------------------ events
\* kind: "update"   an AgentRunResponseUpdate
\*       "wrapper"  event.data is an AgentRunResponseUpdate
\*       "data"     event.data is another object with author_name/contents
\*       "wrapper2" event.data is itself only a wrapper (no contents)
\*       "bare"     no data, not an update
Event(kind, author, contents) ==
  [kind |-> kind, author |-> author, contents |-> contents]
Update(author, contents) == Event("update", author, contents)

\* ------------------------------------------------------- print_agent_event
Result(has, text, reasoning, author, calls, results, ctype, usage) ==
  [has |-> has, text |-> text, reasoning |-> reasoning, author |-> author,
   function_call |-> IF calls = <<>> THEN <<>> ELSE <<Head(calls)>>,
   function_calls |-> calls,
   function_results |-> results,
   content_type |-> ctype, usage |-> usage]

NoneResult == Result(FALSE, <<>>, <<>>, "", <<>>, <<>>, "None", NoUsageInfo)

InitLocals ==
  [text_delta |-> <<>>, reasoning_delta |-> <<>>, content_type |-> "None",
   function_calls |-> <<>>, function_results |-> <<>>,
   usage_detected |-> FALSE, usage_info |-> EmptyUsageInfo]

\* ScanContent that lets a final-summary marker count as reasoning
ScanContent_MarkerCounts(loc, content) ==
  CASE content.type = "TextReasoningContent" ->
         [loc EXCEPT !.reasoning_delta = content.text,
                     !.content_type = IF content.text # <<>>
                                      THEN "reasoning" ELSE @]
    [] content.type = "TextContent" ->
         [loc EXCEPT !.text_delta = content.text,
                     !.content_type = IF content.text # <<>>
                                      THEN "text" ELSE @]
    [] content.type = "FunctionCallContent" ->
         [loc EXCEPT !.function_calls =
                        Append(@, [name |-> content.name,
                                   arguments |-> content.arguments,
                                   call_id |-> content.call_id]),
                     !.content_type = IF @ = "None"
                                      THEN "function_call" ELSE @]
    [] content.type = "FunctionResultContent" ->
         IF content.result # <<>>
         THEN [loc EXCEPT !.function_results =
                             Append(@, [result |-> content.result,
                                        call_id |-> content.call_id]),
                          !.content_type = IF @ = "None"
                                           THEN "function_result" ELSE @]
         ELSE loc
    [] content.type = "UsageContent" ->
         [loc EXCEPT !.usage_detected = TRUE,
                     !.content_type = "usage",
                     !.usage_info = ExtractUsage(content.raw)]
    [] OTHER -> loc

\* One iteration of "for content in contents".
ScanContent(loc, content) ==
  CASE content.type = "TextReasoningContent" ->
         IF content.marker
         THEN [loc EXCEPT !.reasoning_delta = content.text]
         ELSE [loc EXCEPT !.reasoning_delta = content.text,
                          !.content_type = IF content.text # <<>>
                                           THEN "reasoning" ELSE @]
    [] content.type = "TextContent" ->
         [loc EXCEPT !.text_delta = content.text,
                     !.content_type = IF content.text # <<>>
                                      THEN "text" ELSE @]
    [] content.type = "FunctionCallContent" ->
         [loc EXCEPT !.function_calls =
                        Append(@, [name |-> content.name,
                                   arguments |-> content.arguments,
                                   call_id |-> content.call_id]),
                     !.content_type = IF @ = "None"
                                      THEN "function_call" ELSE @]
    [] content.type = "FunctionResultContent" ->
         IF content.result # <<>>
         THEN [loc EXCEPT !.function_results =
                             Append(@, [result |-> content.result,
                                        call_id |-> content.call_id]),
                          !.content_type = IF @ = "None"
                                           THEN "function_result" ELSE @]
         ELSE loc
    [] content.type = "UsageContent" ->
         [loc EXCEPT !.usage_detected = TRUE,
                     !.content_type = "usage",
                     !.usage_info = ExtractUsage(content.raw)]
    [] OTHER -> loc

RECURSIVE ScanContents(_, _)
ScanContents(loc, contents) ==
  IF contents = <<>> THEN loc
  ELSE ScanContents(ScanContent(loc, Head(contents)), Tail(contents))

\* The four return statements of the AgentRunResponseUpdate branch.
ClassifyUpdate(author, contents) ==
  LET loc == ScanContents(InitLocals, contents) IN
  IF loc.usage_detected
  THEN Result(TRUE, <<>>, <<>>, author, <<>>, <<>>, "usage", loc.usage_info)
  ELSE IF loc.function_calls # <<>>
  THEN Result(TRUE, <<>>, <<>>, author, loc.function_calls, <<>>,
              "function_call", NoUsageInfo)
  ELSE IF loc.function_results # <<>>
  THEN Result(TRUE, <<>>, <<>>, author, <<>>, loc.function_results,
              "function_result", NoUsageInfo)
  ELSE Result(TRUE, loc.text_delta, loc.reasoning_delta, author, <<>>, <<>>,
              loc.content_type, NoUsageInfo)

\* The loop over data.contents of the nested branch: the first item that
\* returns decides; the returned dicts have no 'function_results' and the
\* function_call dict has no 'call_id'.
RECURSIVE ClassifyData(_, _)
ClassifyData(author, contents) ==
  IF contents = <<>> THEN NoneResult
  ELSE LET content == Head(contents) IN
    IF content.type = "TextContent" /\ content.text # <<>>
    THEN Result(TRUE, content.text, <<>>, author, <<>>, <<>>, "text",
                NoUsageInfo)
    ELSE IF content.type = "FunctionCallContent" /\ content.name # ""
    THEN Result(TRUE, <<>>, <<>>, author,
                <<[name |-> content.name, arguments |-> content.arguments,
                   call_id |-> ""]>>,
                <<>>, "function_call", NoUsageInfo)
    ELSE IF content.type = "FunctionResultContent" /\ content.result # <<>>
    THEN Result(TRUE, <<>>, <<>>, author, <<>>, <<>>, "function_result",
                NoUsageInfo)
    ELSE ClassifyData(author, Tail(contents))

\* lines 175-176: the object under event.data, by the kind of the event.
\* A "wrapper2" event holds an object that has a data attribute of its own
\* and neither author_name nor contents.
HasData(event) == event.kind \in {"wrapper", "data", "wrapper2"}

Data(event) ==
  CASE event.kind = "wrapper" -> Event("update", event.author, event.contents)
    [] event.kind = "data" -> Event("object", event.author, event.contents)
    [] event.kind = "wrapper2" ->
         Event("wrapper", event.author, event.contents)
    [] OTHER -> Event("bare", "", <<>>)

\* lines 180-181: getattr(data, 'author_name', None) and data.contents
DataAuthor(data) == IF data.kind = "object" THEN data.author ELSE ""
DataContents(data) == IF data.kind = "object" THEN data.contents ELSE <<>>

\* Classify that keeps unwrapping while data holds a data attribute
RECURSIVE Classify_Iterative(_, _)
Classify_Iterative(event, calls) ==
  IF event.kind = "update"
  THEN [result |-> ClassifyUpdate(event.author, event.contents),
        calls |-> calls]
  ELSE IF HasData(event)
  THEN LET data == Data(event) IN
       IF HasData(data) \/ data.kind = "update"
       THEN Classify_Iterative(data, calls + 1)
       ELSE [result |-> ClassifyData(DataAuthor(data), DataContents(data)),
             calls |-> calls]
  ELSE [result |-> NoneResult, calls |-> calls]

\* lines 23-210: the classification of an event and the number of
\* invocations of print_agent_event it took, this one being number `calls`
RECURSIVE Classify(_, _)
Classify(event, calls) ==
  IF event.kind = "update"
  THEN [result |-> ClassifyUpdate(event.author, event.contents),
        calls |-> calls]
  ELSE IF HasData(event)
  THEN LET data == Data(event) IN
       IF data.kind = "update"
       THEN Classify(data, calls + 1)
       ELSE [result |-> ClassifyData(DataAuthor(data), DataContents(data)),
             calls |-> calls]
  ELSE [result |-> NoneResult, calls |-> calls]

print_agent_event(event) == Classify(event, 1).result

\* ------------------------------------------------------------ render sink
Panel(kind, author, name, content, subtitle) ==
  [kind |-> kind, author |-> author, name |-> name, content |-> content,
   subtitle |-> subtitle]

\* Live("") / live.update("")
EmptyLive == Panel("empty", "", "", <<>>, <<>>)

\* f"{current_author}" : None prints as "None"
AuthorStr(author) == IF author = "" THEN "None" ELSE author

\* "... - {current_author}" if current_author else "..."
TitleAuthor(author) == author

\* subtitle_parts of the usage branch: a part for every key whose
\* usage_tokens.get(key) is not None.
SubtitlePart(label, v) ==
  IF v \in {Missing, NoneVal} THEN <<>> ELSE << <<label, v>> >>

Subtitle(usage) ==
  SubtitlePart("In", usage.input_tokens)
    \o SubtitlePart("Out", usage.output_tokens)
    \o SubtitlePart("Reasoning", usage.reasoning_tokens)
    \o SubtitlePart("Total", usage.total_tokens)

\* -------------------------------------------------------- call accumulator
\* function_call_accumulator: entries in insertion order.
Keys(acc) == {acc[i].key : i \in 1..Len(acc)}

IndexOf(acc, key) == CHOOSE i \in 1..Len(acc) : acc[i].key = key

\* ResolveCallId that never reuses the last-seen id
ResolveCallId_NoReuse(call_id, last) ==
  IF call_id # "" THEN call_id ELSE "default"

\* lines 356-362: the key a fragment is accumulated under
ResolveCallId(call_id, last) ==
  IF call_id = "" /\ last # "" THEN last
  ELSE IF call_id # "" THEN call_id
  ELSE "default"

\* lines 356-362: last_call_id after the fragment
NextLastCallId(call_id, last) ==
  IF call_id = "" /\ last # "" THEN last
  ELSE IF call_id # "" THEN call_id
  ELSE last

\* Observe that keeps only the latest argument chunk
Observe_Overwrite(acc, key, func_info, author) ==
  LET acc1 == IF key \in Keys(acc) THEN acc
              ELSE Append(acc, [key |-> key, name |-> "",
                                arguments |-> <<>>, author |-> author])
      i == IndexOf(acc1, key)
  IN [acc1 EXCEPT ![i].name = IF func_info.name # ""
                               THEN func_info.name ELSE @,
                  ![i].arguments = func_info.arguments]

\* Observe that stamps the entry with the author of the latest fragment
Observe_LatestAuthor(acc, key, func_info, author) ==
  LET acc1 == IF key \in Keys(acc) THEN acc
              ELSE Append(acc, [key |-> key, name |-> "",
                                arguments |-> <<>>, author |-> author])
      i == IndexOf(acc1, key)
  IN [acc1 EXCEPT ![i].name = IF func_info.name # ""
                               THEN func_info.name ELSE @,
                  ![i].arguments = @ \o func_info.arguments,
                  ![i].author = author]

\* lines 364-371
Observe(acc, key, func_info, author) ==
  LET acc1 == IF key \in Keys(acc) THEN acc
              ELSE Append(acc, [key |-> key, name |-> "",
                                arguments |-> <<>>, author |-> author])
      i == IndexOf(acc1, key)
  IN [acc1 EXCEPT ![i].name = IF func_info.name # ""
                               THEN func_info.name ELSE @,
                  ![i].arguments = @ \o func_info.arguments]

\* DrainPanels that walks the accumulator backwards
RECURSIVE DrainPanels_Reversed(_)
DrainPanels_Reversed(acc) ==
  IF acc = <<>> THEN <<>>
  ELSE LET call_data == Head(acc) IN
       DrainPanels_Reversed(Tail(acc))
       \o (IF call_data.name # ""
           THEN <<[kind |-> "function_call",
                   author |-> IF call_data.author = "" THEN "None"
                              ELSE call_data.author,
                   name |-> call_data.name,
                   content |-> call_data.arguments,
                   subtitle |-> <<>>]>>
           ELSE <<>>)

\* lines 380-394: the panels printed for the accumulator, in dict order
RECURSIVE DrainPanels(_)
DrainPanels(acc) ==
  IF acc = <<>> THEN <<>>
  ELSE LET call_data == Head(acc) IN
       (IF call_data.name # ""
        THEN <<Panel("function_call", AuthorStr(call_data.author),
                     call_data.name, call_data.arguments, <<>>)>>
        ELSE <<>>) \o DrainPanels(Tail(acc))

\* lines 427-439
RECURSIVE ResultPanels(_, _)
ResultPanels(function_results, author) ==
  IF function_results = <<>> THEN <<>>
  ELSE <<Panel("function_result", AuthorStr(author), "",
               Head(function_results).result, <<>>)>>
       \o ResultPanels(Tail(function_results), author)

\* ------------------------------------------------------------------- state
VARIABLES
  pc,                        \* "prompt", "stream", "exited", "failed"
  user_input,                \* the line read by input("> ").strip()
  accumulated_text,
  accumulated_reasoning,
  current_author,
  usage_tokens,              \* <<>> is None, else <<usage_info>>
  reasoning_active,
  function_call_accumulator,
  last_call_id,
  live,                      \* what the Live display shows (last write wins)
  console,                   \* panels printed with console.print, in order
  stepOut,                   \* sink operations of the last folded event
  hist,                      \* events folded so far in the current turn
  turns,                     \* turns started
  folded,                    \* weight of the events folded in the session
  script,                    \* the program that runs: "chat" is
                             \* 1_azure_openai_chat_agent.py, "swarm" is
                             \* swarm_agent.py, "tool" is 3_agent_as_tool.py,
                             \* "swarm4" is 4_swarm.py
  live_context,              \* the Live object: "none", "started", "stopped"
  previous_author,           \* swarm_agent.py
  current_executor,          \* 4_swarm.py
  author_name,               \* 4_swarm.py
  pending_requests,          \* 4_swarm.py: len(pending_requests)
  last_stream_agent_id,      \* 2_magentic_orchestration.py; "" is None
  stream_line_open           \* 2_magentic_orchestration.py

locals == <<accumulated_text, accumulated_reasoning, current_author,
            usage_tokens, reasoning_active, function_call_accumulator,
            last_call_id>>
vars == <<pc, user_input, accumulated_text, accumulated_reasoning,
          current_author, usage_tokens, reasoning_active,
          function_call_accumulator, last_call_id, live, console, stepOut,
          hist, turns, folded, script, live_context, previous_author,
          current_executor, author_name, pending_requests,
          last_stream_agent_id, stream_line_open>>

\* the state of the streaming callback of 2_magentic_orchestration.py
magentic == <<last_stream_agent_id, stream_line_open>>

\* what 1_azure_openai_chat_agent.py does not have
others == <<script, previous_author, current_executor, author_name,
            pending_requests, magentic>>

ConsolePrint(panel) == [op |-> "print", panel |-> panel]
LiveUpdate(panel) == [op |-> "live", panel |-> panel]

RECURSIVE ConsolePrints(_)
ConsolePrints(panels) ==
  IF panels = <<>> THEN <<>>
  ELSE <<ConsolePrint(Head(panels))>> \o ConsolePrints(Tail(panels))

\* ConsoleAfter whose print redraws the last panel instead of adding one
RECURSIVE ConsoleAfter_Redraw(_, _)
ConsoleAfter_Redraw(c, ops) ==
  IF ops = <<>> THEN c
  ELSE ConsoleAfter_Redraw(
         IF Head(ops).op = "print"
         THEN (IF c = <<>> THEN <<Head(ops).panel>>
               ELSE [c EXCEPT ![Len(c)] = Head(ops).panel])
         ELSE c, Tail(ops))

\* The sink after a sequence of operations.
RECURSIVE ConsoleAfter(_, _)
ConsoleAfter(c, ops) ==
  IF ops = <<>> THEN c
  ELSE ConsoleAfter(IF Head(ops).op = "print"
                    THEN Append(c, Head(ops).panel) ELSE c, Tail(ops))

RECURSIVE LiveAfter(_, _)
LiveAfter(l, ops) ==
  IF ops = <<>> THEN l
  ELSE LiveAfter(IF Head(ops).op = "live" THEN Head(ops).panel ELSE l,
                 Tail(ops))

InitOf(sc) ==
  /\ script = sc
  /\ live_context = "none"
  /\ previous_author = ""
  /\ current_executor = ""
  /\ author_name = ""
  /\ pending_requests = 0
  /\ last_stream_agent_id = ""
  /\ stream_line_open = FALSE
  /\ pc = "prompt"
  /\ user_input = "unset"
  /\ accumulated_text = <<>>
  /\ accumulated_reasoning = <<>>
  /\ current_author = ""
  /\ usage_tokens = <<>>
  /\ reasoning_active = FALSE
  /\ function_call_accumulator = <<>>
  /\ last_call_id = ""
  /\ live = EmptyLive
  /\ console = <<>>
  /\ stepOut = <<>>
  /\ hist = <<>>
  /\ turns = 0
  /\ folded = 0

Init == InitOf("chat")

\* ---------------------------------------------------- the async-for body
\* The loop's local variables as one value, with the sink operations the
\* current iteration has issued so far.
Locals ==
  [accumulated_text |-> accumulated_text,
   accumulated_reasoning |-> accumulated_reasoning,
   current_author |-> current_author,
   usage_tokens |-> usage_tokens,
   reasoning_active |-> reasoning_active,
   function_call_accumulator |-> function_call_accumulator,
   last_call_id |-> last_call_id,
   ops |-> <<>>]

\* lines 317-318
SetAuthor(s, result) ==
  IF result.author # "" THEN [s EXCEPT !.current_author = result.author]
  ELSE s

\* lines 321-333 (ends the iteration with continue)
ReasoningBranch(s, result) ==
  LET text == s.accumulated_reasoning \o result.reasoning IN
  [s EXCEPT !.reasoning_active = TRUE,
            !.accumulated_reasoning = text,
            !.ops = Append(@, LiveUpdate(
                      Panel("reasoning", TitleAuthor(s.current_author), "",
                            text, <<>>)))]

\* FinalizeReasoning that keeps the reasoning buffer and the phase flag
FinalizeReasoning_NoClear(s, result) ==
  IF result.content_type = "text" /\ s.reasoning_active
     /\ s.accumulated_reasoning # <<>>
  THEN [s EXCEPT !.ops = Append(@, ConsolePrint(
                           Panel("reasoning", AuthorStr(s.current_author),
                                 "", s.accumulated_reasoning, <<>>)))]
  ELSE s

\* lines 336-347
FinalizeReasoning(s, result) ==
  IF result.content_type = "text" /\ s.reasoning_active
     /\ s.accumulated_reasoning # <<>>
  THEN [s EXCEPT !.ops = Append(@, ConsolePrint(
                           Panel("reasoning", AuthorStr(s.current_author),
                                 "", s.accumulated_reasoning, <<>>))),
                 !.reasoning_active = FALSE,
                 !.accumulated_reasoning = <<>>]
  ELSE s

\* lines 350-371
CallBranch(s, result) ==
  LET func_info == result.function_call[1]
      call_id == ResolveCallId(func_info.call_id, s.last_call_id)
  IN [s EXCEPT !.last_call_id = NextLastCallId(func_info.call_id, @),
               !.function_call_accumulator =
                  Observe(@, call_id, func_info, s.current_author)]

\* UsageBranch that forgets to clear the accumulator
UsageBranch_NoClear(s, result) ==
  [s EXCEPT !.usage_tokens = <<result.usage>>,
            !.ops = @ \o ConsolePrints(
                           DrainPanels(s.function_call_accumulator))
                      \o (IF s.accumulated_text # <<>>
                          THEN <<LiveUpdate(Panel("text",
                                   TitleAuthor(s.current_author), "",
                                   s.accumulated_text,
                                   Subtitle(result.usage)))>>
                          ELSE <<>>)]

\* UsageBranch that updates the text panel before it prints the calls
UsageBranch_TextFirst(s, result) ==
  [s EXCEPT !.usage_tokens = <<result.usage>>,
            !.ops = @ \o (IF s.accumulated_text # <<>>
                          THEN <<LiveUpdate(Panel("text",
                                   TitleAuthor(s.current_author), "",
                                   s.accumulated_text,
                                   Subtitle(result.usage)))>>
                          ELSE <<>>)
                      \o ConsolePrints(
                           DrainPanels(s.function_call_accumulator)),
            !.function_call_accumulator = <<>>,
            !.last_call_id = ""]

\* UsageBranch that starts the text buffer afresh after showing it
UsageBranch_ResetsText(s, result) ==
  LET subtitle == Subtitle(result.usage)
      shown == IF s.accumulated_text # <<>>
               THEN <<LiveUpdate(Panel("text", TitleAuthor(s.current_author),
                                       "", s.accumulated_text, subtitle))>>
               ELSE <<>>
  IN [s EXCEPT !.usage_tokens = <<result.usage>>,
               !.ops = @ \o ConsolePrints(
                              DrainPanels(s.function_call_accumulator))
                         \o shown,
               !.accumulated_text = <<>>,
               !.function_call_accumulator = <<>>,
               !.last_call_id = ""]

\* lines 374-422
UsageBranch(s, result) ==
  LET subtitle == Subtitle(result.usage)
      shown == IF s.accumulated_text # <<>>
               THEN <<LiveUpdate(Panel("text", TitleAuthor(s.current_author),
                                       "", s.accumulated_text, subtitle))>>
               ELSE <<>>
  IN [s EXCEPT !.usage_tokens = <<result.usage>>,
               !.ops = @ \o ConsolePrints(
                              DrainPanels(s.function_call_accumulator))
                         \o shown,
               !.function_call_accumulator = <<>>,
               !.last_call_id = ""]

\* ResultBranch that also shows the pending calls when a result arrives
ResultBranch_Drains(s, result) ==
  [s EXCEPT !.ops = @ \o ConsolePrints(
                           DrainPanels(s.function_call_accumulator))
                      \o ConsolePrints(
                           ResultPanels(result.function_results,
                                        s.current_author)),
            !.function_call_accumulator = <<>>]

\* lines 425-439
ResultBranch(s, result) ==
  [s EXCEPT !.ops = @ \o ConsolePrints(
                           ResultPanels(result.function_results,
                                        s.current_author))]

\* lines 442-456
TextBranch(s, result) ==
  LET text == s.accumulated_text \o result.text IN
  [s EXCEPT !.accumulated_text = text,
            !.ops = Append(@, LiveUpdate(
                      Panel("text", TitleAuthor(s.current_author), "",
                            text, <<>>)))]

\* lines 350, 374, 425, 442: the if / elif chain
Dispatch(s, result) ==
  IF result.content_type = "function_call" /\ result.function_call # <<>>
  THEN CallBranch(s, result)
  ELSE IF result.content_type = "usage"
  THEN UsageBranch(s, result)
  ELSE IF result.content_type = "function_result"
          /\ result.function_results # <<>>
  THEN ResultBranch(s, result)
  ELSE IF result.text # <<>>
  THEN TextBranch(s, result)
  ELSE s

\* LoopBody that takes a None result for the end of the reasoning phase
LoopBody_NoneFinalizes(s, result) ==
  IF ~result.has
  THEN FinalizeReasoning(s, [result EXCEPT !.content_type = "text"])
  ELSE LET s1 == SetAuthor(s, result) IN
       IF result.content_type = "reasoning" /\ result.reasoning # <<>>
       THEN ReasoningBranch(s1, result)
       ELSE Dispatch(FinalizeReasoning(s1, result), result)

\* lines 315-456: one iteration for the classified event
LoopBody(s, result) ==
  IF ~result.has THEN s
  ELSE LET s1 == SetAuthor(s, result) IN
       IF result.content_type = "reasoning" /\ result.reasoning # <<>>
       THEN ReasoningBranch(s1, result)
       ELSE Dispatch(FinalizeReasoning(s1, result), result)

\* ------------------------------------------------------------- user input
\* Lines the user may type at input("> "), with str.strip and str.lower
\* tabulated on them.
InputLines == {"quit", "QUIT", " Quit ", "", "  ", " hi"}

Strip(line) ==
  CASE line = " Quit " -> "Quit"
    [] line = "  " -> ""
    [] line = " hi" -> "hi"
    [] OTHER -> line

\* Lower that leaves the case of the line as it is
Lower_KeepsCase(line) == line

Lower(line) ==
  CASE line \in {"QUIT", "Quit"} -> "quit"
    [] OTHER -> line

\* -------------------------------------------------------- event universes
Raw(shape, input_tokens, output_tokens, total_tokens) ==
  [shape |-> shape,
   usage |-> [NoUsageObj EXCEPT !.input_tokens = input_tokens,
                                !.output_tokens = output_tokens,
                                !.total_tokens = total_tokens]]

Raw10_5 == Raw("response", 10, 5, 15)

\* Spec: one event of every variant, two authors.
Events ==
  {Update("A1", <<Reasoning(<<"r">>, FALSE)>>),
   Update("A1", <<Reasoning(<<"D">>, TRUE)>>),
   Update("A1", <<Text(<<"t">>)>>),
   Update("A2", <<Text(<<"u">>)>>),
   Update("", <<FunctionCall("A", "f", <<"a">>)>>),
   Update("A2", <<FunctionCall("", "", <<"x">>)>>),
   Update("A1", <<FunctionResult("A", <<"ok">>)>>),
   Update("A1", <<Usage(Raw10_5)>>),
   Update("", <<Usage(NoRaw)>>),
   Event("wrapper", "A1", <<Text(<<"w">>)>>),
   Event("bare", "", <<>>)}

\* SpecCalls: function-call fragments and Usage signals.
CallEvents ==
  {Update("", <<FunctionCall("A", "f", <<"a">>)>>),
   Update("", <<FunctionCall("B", "g", <<>>)>>),
   Update("", <<FunctionCall("", "", <<"x">>)>>),
   Update("", <<FunctionCall("", "", <<"y">>)>>),
   Update("", <<FunctionCall("A", "f", <<"a">>),
                FunctionCall("", "", <<"x">>)>>),
   Update("", <<Usage(Raw10_5)>>)}

\* SpecClassify: every content list of at most MaxItems items.
Items ==
  {Reasoning(<<"r">>, FALSE), Reasoning(<<"D">>, TRUE),
   Text(<<"t">>), Text(<<>>),
   FunctionCall("A", "f", <<"a">>), FunctionCall("", "", <<"x">>),
   FunctionResult("A", <<"ok">>), FunctionResult("A", <<>>),
   Usage(Raw10_5)}

ContentLists == UNION {[1..n -> Items] : n \in 0..MaxItems}

AllEvents == {Update(a, c) : a \in {"", "A1"}, c \in ContentLists}

\* ----------------------------------------------------------------- actions
\* lines 288-292: the quit keyword ends the input loop
Quit ==
  /\ script # "tool"
  /\ pc = "prompt"
  /\ \E line \in InputLines :
       /\ Lower(Strip(line)) = "quit"
       /\ user_input' = Strip(line)
  /\ pc' = "exited"
  /\ UNCHANGED <<locals, live, console, stepOut, hist, turns, folded, others,
                 live_context>>

\* lines 288-295: an empty line re-prompts
EmptyInput ==
  /\ script = "chat"
  /\ pc = "prompt"
  /\ \E line \in InputLines :
       /\ Lower(Strip(line)) # "quit"
       /\ Strip(line) = ""
       /\ user_input' = Strip(line)
  /\ UNCHANGED <<pc, locals, live, console, stepOut, hist, turns, folded,
                 others, live_context>>

\* StartTurn that keeps the accumulator of the turn before
StartTurn_KeepsAccumulator ==
  /\ script = "chat"
  /\ pc = "prompt"
  /\ turns < MaxTurns
  /\ \E line \in InputLines :
       /\ Lower(Strip(line)) # "quit"
       /\ Strip(line) # ""
       /\ user_input' = Strip(line)
       /\ console' = Append(console,
                            Panel("user", "", "", <<Strip(line)>>, <<>>))
  /\ accumulated_text' = <<>>
  /\ accumulated_reasoning' = <<>>
  /\ current_author' = ""
  /\ usage_tokens' = <<>>
  /\ reasoning_active' = FALSE
  /\ function_call_accumulator' = function_call_accumulator
  /\ last_call_id' = last_call_id
  /\ live' = EmptyLive
  /\ live_context' = "started"
  /\ stepOut' = <<>>
  /\ hist' = <<>>
  /\ turns' = turns + 1
  /\ pc' = "stream"
  /\ UNCHANGED <<folded, others>>

\* lines 288-313: a turn starts; the loop's locals are re-initialised and a
\* new Live display is opened
StartTurn ==
  /\ script = "chat"
  /\ pc = "prompt"
  /\ turns < MaxTurns
  /\ \E line \in InputLines :
       /\ Lower(Strip(line)) # "quit"
       /\ Strip(line) # ""
       /\ user_input' = Strip(line)
       /\ console' = Append(console,
                            Panel("user", "", "", <<Strip(line)>>, <<>>))
  /\ accumulated_text' = <<>>
  /\ accumulated_reasoning' = <<>>
  /\ current_author' = ""
  /\ usage_tokens' = <<>>
  /\ reasoning_active' = FALSE
  /\ function_call_accumulator' = <<>>
  /\ last_call_id' = ""
  /\ live' = EmptyLive
  /\ live_context' = "started"
  /\ stepOut' = <<>>
  /\ hist' = <<>>
  /\ turns' = turns + 1
  /\ pc' = "stream"
  /\ UNCHANGED <<folded, others>>

\* lines 314-456: the stream yields one event, which is classified and folded
Weight(event) == IF event.contents = <<>> THEN 1 ELSE Len(event.contents)

FoldEvent(universe, maxFolded) ==
  /\ script = "chat"
  /\ pc = "stream"
  /\ \E event \in universe :
       LET s == LoopBody(Locals, print_agent_event(event)) IN
       /\ folded + Weight(event) <= maxFolded
       /\ folded' = folded + Weight(event)
       /\ accumulated_text' = s.accumulated_text
       /\ accumulated_reasoning' = s.accumulated_reasoning
       /\ current_author' = s.current_author
       /\ usage_tokens' = s.usage_tokens
       /\ reasoning_active' = s.reasoning_active
       /\ function_call_accumulator' = s.function_call_accumulator
       /\ last_call_id' = s.last_call_id
       /\ console' = ConsoleAfter(console, s.ops)
       /\ live' = LiveAfter(live, s.ops)
       /\ stepOut' = s.ops
       /\ hist' = Append(hist, event)
  /\ UNCHANGED <<pc, user_input, turns, others, live_context>>

\* lines 314, 458: the stream ends; the Live display is closed on what it
\* last showed and the loop prompts again
StreamEnd ==
  /\ script = "chat"
  /\ pc = "stream"
  /\ pc' = "prompt"
  /\ live_context' = "stopped"
  /\ UNCHANGED <<user_input, locals, live, console, stepOut, hist, turns,
                 folded, others>>

\* StreamRaise that prints the text accumulated so far before failing
StreamRaise_Flushes ==
  /\ script # "tool"
  /\ pc = "stream"
  /\ pc' = "failed"
  /\ live_context' = "stopped"
  /\ console' = IF accumulated_text # <<>>
                THEN Append(console,
                            Panel("text", TitleAuthor(current_author), "",
                                  accumulated_text, <<>>))
                ELSE console
  /\ UNCHANGED <<user_input, locals, live, stepOut, hist, turns, folded,
                 others>>

\* line 314: the event source raises; nothing in main catches it
StreamRaise ==
  /\ script # "tool"
  /\ pc = "stream"
  /\ pc' = "failed"
  /\ live_context' = "stopped"
  /\ UNCHANGED <<user_input, locals, live, console, stepOut, hist, turns,
                 folded, others>>

Next ==
  \/ Quit
  \/ EmptyInput
  \/ StartTurn
  \/ FoldEvent(Events, MaxEvents)
  \/ StreamEnd
  \/ StreamRaise

Spec == Init /\ [][Next]_vars

NextCalls ==
  \/ Quit
  \/ EmptyInput
  \/ StartTurn
  \/ FoldEvent(CallEvents, MaxCallEvents)
  \/ StreamEnd
  \/ StreamRaise

SpecCalls == Init /\ [][NextCalls]_vars

NextClassify ==
  \/ Quit
  \/ EmptyInput
  \/ StartTurn
  \/ FoldEvent(AllEvents, MaxItems)
  \/ StreamEnd
  \/ StreamRaise

SpecClassify == Init /\ [][NextClassify]_vars

\* The two worked examples: reasoning, marker, answer, usage; and a tool
\* call streamed in three fragments, then usage.
ReasoningScenario ==
  <<Update("A", <<Reasoning(<<"Let me think">>, FALSE)>>),
    Update("A", <<Reasoning(<<"... done">>, TRUE)>>),
    Update("A", <<Text(<<"The answer is 4">>)>>),
    Update("A", <<Usage(Raw("response", 10, 5, Missing))>>)>>

CallScenario ==
  <<Update("A", <<FunctionCall("c1", "get_weather", <<>>)>>),
    Update("A", <<FunctionCall("", "", <<"{\"location\":">>)>>),
    Update("A", <<FunctionCall("", "", <<"\"Paris\"}">>)>>),
    Update("A", <<Usage(Raw("response", 10, 5, Missing))>>)>>

ScenarioEvents ==
  {ReasoningScenario[i] : i \in 1..4} \cup {CallScenario[i] : i \in 1..4}

NextScenario ==
  \/ Quit
  \/ EmptyInput
  \/ StartTurn
  \/ FoldEvent(ScenarioEvents, MaxScenarioEvents)
  \/ StreamEnd
  \/ StreamRaise

SpecScenario == Init /\ [][NextScenario]_vars

\* ======================================================= swarm_agent.py
\* print_agent_event, lines 88-200.  Only text, function calls that carry a
\* name, and function results are read.
SwarmResult(has, text, author, calls, results, ctype) ==
  [has |-> has, text |-> text, author |-> author,
   function_call |-> IF calls = <<>> THEN <<>> ELSE <<calls[1]>>,
   function_results |-> results, content_type |-> ctype]

SwarmNoneResult == SwarmResult(FALSE, <<>>, "", <<>>, <<>>, "None")

SwarmInitLocals ==
  [text_delta |-> <<>>, content_type |-> "None", function_calls |-> <<>>,
   function_results |-> <<>>]

\* lines 109-128
SwarmScanContent(loc, content) ==
  CASE content.type = "TextContent" ->
         [loc EXCEPT !.text_delta = content.text,
                     !.content_type = IF content.text # <<>>
                                      THEN "text" ELSE @]
    [] content.type = "FunctionCallContent" ->
         IF content.name # ""
         THEN [loc EXCEPT !.function_calls =
                             Append(@, [name |-> content.name,
                                        arguments |-> content.arguments]),
                          !.content_type = IF @ = "None"
                                           THEN "function_call" ELSE @]
         ELSE loc
    [] content.type = "FunctionResultContent" ->
         IF content.result # <<>>
         THEN [loc EXCEPT !.function_results =
                             Append(@, [result |-> content.result,
                                        call_id |-> content.call_id]),
                          !.content_type = IF @ = "None"
                                           THEN "function_result" ELSE @]
         ELSE loc
    [] OTHER -> loc

RECURSIVE SwarmScanContents(_, _)
SwarmScanContents(loc, contents) ==
  IF contents = <<>> THEN loc
  ELSE SwarmScanContents(SwarmScanContent(loc, Head(contents)),
                         Tail(contents))

\* lines 130-162
SwarmClassifyUpdate(author, contents) ==
  LET loc == SwarmScanContents(SwarmInitLocals, contents) IN
  IF loc.function_calls # <<>>
  THEN SwarmResult(TRUE, <<>>, author, loc.function_calls, <<>>,
                   "function_call")
  ELSE IF loc.function_results # <<>>
  THEN SwarmResult(TRUE, <<>>, author, <<>>, loc.function_results,
                   "function_result")
  ELSE SwarmResult(TRUE, loc.text_delta, author, <<>>, <<>>,
                   loc.content_type)

\* lines 100, 165-168, 200: an update, an event whose data is an update, or
\* an event that has neither
swarm_print_agent_event(event) ==
  IF event.kind \in {"update", "wrapper"}
  THEN SwarmClassifyUpdate(event.author, event.contents)
  ELSE SwarmNoneResult

\* main, lines 291-371.  accumulated_function_calls is only ever appended
\* to and is left out.
SwarmLocals ==
  [accumulated_text |-> accumulated_text,
   current_author |-> current_author,
   previous_author |-> previous_author,
   ops |-> <<>>]

\* SwarmAuthorChange that finalizes whenever text is buffered
SwarmAuthorChange_Always(s, author) ==
  LET flushed ==
        IF s.accumulated_text # <<>>
        THEN [s EXCEPT !.ops = @ \o <<ConsolePrint(
                                        Panel("text", s.previous_author, "",
                                              s.accumulated_text, <<>>)),
                                      LiveUpdate(EmptyLive)>>,
                       !.accumulated_text = <<>>]
        ELSE s
  IN [flushed EXCEPT !.current_author = author,
                     !.previous_author = author]

\* lines 302-318, for a result whose author is truthy
SwarmAuthorChange(s, author) ==
  LET flushed ==
        IF s.previous_author # "" /\ author # s.previous_author
           /\ s.accumulated_text # <<>>
        THEN [s EXCEPT !.ops = @ \o <<ConsolePrint(
                                        Panel("text", s.previous_author, "",
                                              s.accumulated_text, <<>>)),
                                      LiveUpdate(EmptyLive)>>,
                       !.accumulated_text = <<>>]
        ELSE s
  IN [flushed EXCEPT !.current_author = author,
                     !.previous_author = author]

\* SwarmCallBranch that shows the call in the Live display
SwarmCallBranch_Live(s, result) ==
  [s EXCEPT !.ops = Append(@, LiveUpdate(
                       Panel("function_call", AuthorStr(s.current_author),
                             result.function_call[1].name,
                             result.function_call[1].arguments, <<>>)))]

\* lines 321-336
SwarmCallBranch(s, result) ==
  [s EXCEPT !.ops = Append(@, ConsolePrint(
                       Panel("function_call", AuthorStr(s.current_author),
                             result.function_call[1].name,
                             result.function_call[1].arguments, <<>>)))]

\* lines 339-354
SwarmResultBranch(s, result) ==
  [s EXCEPT !.ops = @ \o ConsolePrints(
                           ResultPanels(result.function_results,
                                        s.current_author))]

\* lines 357-371
SwarmTextBranch(s, result) ==
  LET text == s.accumulated_text \o result.text IN
  [s EXCEPT !.accumulated_text = text,
            !.ops = Append(@, LiveUpdate(
                       Panel("text", s.current_author, "", text, <<>>)))]

\* lines 300-371
SwarmLoopBody(s, result) ==
  IF ~result.has THEN s
  ELSE LET s1 == IF result.author # ""
                 THEN SwarmAuthorChange(s, result.author) ELSE s
       IN IF result.content_type = "function_call"
             /\ result.function_call # <<>>
          THEN SwarmCallBranch(s1, result)
          ELSE IF result.content_type = "function_result"
                  /\ result.function_results # <<>>
          THEN SwarmResultBranch(s1, result)
          ELSE IF result.text # <<>> THEN SwarmTextBranch(s1, result)
          ELSE s1

\* lines 374-380: what is printed after the stream
SwarmFinalOps ==
  IF accumulated_text # <<>> /\ current_author # ""
  THEN <<ConsolePrint(Panel("text", current_author, "", accumulated_text,
                            <<>>))>>
  ELSE <<>>

SwarmEvents ==
  {Update("A1", <<Text(<<"t">>)>>),
   Update("A2", <<Text(<<"u">>)>>),
   Update("", <<Text(<<"v">>)>>),
   Update("A1", <<FunctionCall("A", "f", <<"a">>)>>),
   Update("A2", <<FunctionResult("A", <<"ok">>)>>),
   Update("A2", <<>>),
   Event("bare", "", <<>>)}

\* the other scripts' locals
chatOnly == <<accumulated_reasoning, usage_tokens, reasoning_active,
              function_call_accumulator, last_call_id>>

\* lines 282-297 and 388-428: a line that is not the quit keyword starts a
\* stream, whether or not it is empty
SwarmStartTurn ==
  /\ script = "swarm"
  /\ pc = "prompt"
  /\ turns < MaxTurns
  /\ \E line \in InputLines :
       /\ Lower(Strip(line)) # "quit"
       /\ user_input' = Strip(line)
       /\ console' = Append(console,
                            Panel("user", "", "", <<Strip(line)>>, <<>>))
  /\ accumulated_text' = <<>>
  /\ current_author' = ""
  /\ previous_author' = ""
  /\ live' = EmptyLive
  /\ live_context' = "started"
  /\ stepOut' = <<>>
  /\ hist' = <<>>
  /\ turns' = turns + 1
  /\ pc' = "stream"
  /\ UNCHANGED <<folded, chatOnly, script, current_executor, author_name,
                 pending_requests, magentic>>

\* lines 299-371
SwarmFold(universe, maxFolded) ==
  /\ script = "swarm"
  /\ pc = "stream"
  /\ \E event \in universe :
       LET s == SwarmLoopBody(SwarmLocals, swarm_print_agent_event(event)) IN
       /\ folded + Weight(event) <= maxFolded
       /\ folded' = folded + Weight(event)
       /\ accumulated_text' = s.accumulated_text
       /\ current_author' = s.current_author
       /\ previous_author' = s.previous_author
       /\ console' = ConsoleAfter(console, s.ops)
       /\ live' = LiveAfter(live, s.ops)
       /\ stepOut' = s.ops
       /\ hist' = Append(hist, event)
  /\ UNCHANGED <<pc, user_input, turns, chatOnly, script, live_context,
                 current_executor, author_name, pending_requests, magentic>>

\* lines 372-386: the stream ends, the Live block is left, the remaining
\* text is printed; the loop prompts again while the workflow agent has
\* pending requests
SwarmStreamEnd ==
  /\ script = "swarm"
  /\ pc = "stream"
  /\ pc' \in {"prompt", "exited"}
  /\ live_context' = "stopped"
  /\ console' = ConsoleAfter(console, SwarmFinalOps)
  /\ stepOut' = SwarmFinalOps
  /\ UNCHANGED <<user_input, locals, live, hist, turns, folded, others>>

\* ==================================================== 3_agent_as_tool.py
\* Live.start(), Live.stop() and Live.update() of rich: update() only stores
\* the renderable, which the refresh thread of a started Live shows; stop()
\* ends that thread after a last refresh.
LiveStart(panel) == [op |-> "start", panel |-> panel]
LiveStop == [op |-> "stop", panel |-> EmptyLive]

RECURSIVE DisplayAfter(_, _)
DisplayAfter(d, ops) ==
  IF ops = <<>> THEN d
  ELSE LET o == Head(ops) IN
       DisplayAfter(
         CASE o.op = "start" ->
                [live |-> o.panel, live_context |-> "started"]
           [] o.op = "stop" ->
                [d EXCEPT !.live_context =
                            IF @ = "none" THEN "none" ELSE "stopped"]
           [] o.op = "live" ->
                IF d.live_context = "started"
                THEN [d EXCEPT !.live = o.panel] ELSE d
           [] OTHER -> d,
         Tail(ops))

\* AgentRunResponseUpdate.text: the texts of the TextContent items, joined
RECURSIVE EventText(_)
EventText(contents) ==
  IF contents = <<>> THEN <<>>
  ELSE (IF Head(contents).type = "TextContent" THEN Head(contents).text
        ELSE <<>>) \o EventText(Tail(contents))

\* line 86: f"[Calling {func_name}...]"
CallingText(func_name) ==
  CASE func_name = "f" -> <<"[Calling f...]">>
    [] func_name = "g" -> <<"[Calling g...]">>
    [] OTHER -> <<"[Calling None...]">>

ToolResult(has, text, author) ==
  [has |-> has, text |-> text, author |-> author]

\* print_agent_event, lines 66-109
tool_print_agent_event(event) ==
  IF event.kind = "update"
  THEN LET text_delta == EventText(event.contents)
           calls == SelectSeq(event.contents,
                              LAMBDA c : c.type = "FunctionCallContent")
       IN IF event.contents # <<>> /\ text_delta = <<>> /\ calls # <<>>
          THEN ToolResult(TRUE, CallingText(calls[1].name), event.author)
          ELSE ToolResult(TRUE, text_delta, event.author)
  ELSE IF event.kind = "message" /\ EventText(event.contents) # <<>>
  THEN ToolResult(TRUE, EventText(event.contents), "")
  ELSE ToolResult(FALSE, <<>>, "")

\* process_agent_stream, lines 215-257
ToolLocals ==
  [accumulated_text |-> accumulated_text,
   current_author |-> current_author,
   live_context |-> live_context,
   ops |-> <<>>]

ToolSubtitle(author) ==
  IF author # "" THEN << <<"Author", author>> >> ELSE <<>>

\* title of lines 253, 265: current_author or 'Agent'
ToolTitle(author) == IF author # "" THEN author ELSE "Agent"

\* lines 223-241
ToolAuthorChange(s, result) ==
  LET s1 == IF s.live_context # "none"
            THEN [s EXCEPT !.ops = @ \o
                    <<LiveStop,
                      ConsolePrint(Panel("text", s.current_author, "",
                                         s.accumulated_text,
                                         << <<"Author", s.current_author>> >>))
                    >>]
            ELSE s
  IN [s1 EXCEPT !.current_author = result.author,
                !.accumulated_text = result.text,
                !.live_context = "started",
                !.ops = Append(@, LiveStart(Panel("text", result.author, "",
                                                  <<>>, <<>>)))]

\* lines 242-246
ToolContinue(s, result) ==
  [s EXCEPT !.accumulated_text = @ \o result.text,
            !.current_author = IF result.author # "" THEN result.author
                               ELSE @]

\* lines 249-257
ToolLiveUpdate(s) ==
  IF s.live_context # "none"
  THEN [s EXCEPT !.ops = Append(@, LiveUpdate(
                           Panel("text", ToolTitle(s.current_author), "",
                                 s.accumulated_text,
                                 ToolSubtitle(s.current_author))))]
  ELSE s

\* lines 220-257
ToolLoopBody(s, result) ==
  IF result.has /\ result.text # <<>>
  THEN ToolLiveUpdate(
         IF result.author # "" /\ result.author # s.current_author
         THEN ToolAuthorChange(s, result)
         ELSE ToolContinue(s, result))
  ELSE s

\* lines 260-269
ToolFinalOps ==
  IF live_context # "none"
  THEN <<LiveStop>> \o
       (IF accumulated_text # <<>>
        THEN <<ConsolePrint(Panel("text", ToolTitle(current_author), "",
                                  accumulated_text,
                                  ToolSubtitle(current_author)))>>
        ELSE <<>>)
  ELSE <<>>

ToolEvents ==
  {Update("A1", <<Text(<<"t">>)>>),
   Update("A2", <<Text(<<"u">>)>>),
   Update("", <<Text(<<"v">>)>>),
   Update("A2", <<FunctionCall("A", "f", <<"a">>)>>),
   Update("A1", <<>>),
   Event("message", "", <<Text(<<"m">>)>>),
   Event("bare", "", <<>>)}

\* lines 207-217, 307-308: the next task of the list is processed
ToolStartTask ==
  /\ script = "tool"
  /\ pc = "prompt"
  /\ turns < MaxTurns
  /\ console' = Append(console, Panel("user", "", "", <<"task">>, <<>>))
  /\ accumulated_text' = <<>>
  /\ current_author' = ""
  /\ live_context' = "none"
  /\ live' = EmptyLive
  /\ stepOut' = <<>>
  /\ hist' = <<>>
  /\ turns' = turns + 1
  /\ pc' = "stream"
  /\ UNCHANGED <<user_input, folded, chatOnly, others>>

\* lines 219-257
ToolFold(universe, maxFolded) ==
  /\ script = "tool"
  /\ pc = "stream"
  /\ \E event \in universe :
       LET s == ToolLoopBody(ToolLocals, tool_print_agent_event(event))
           d == DisplayAfter([live |-> live, live_context |-> live_context],
                             s.ops)
       IN
       /\ folded + Weight(event) <= maxFolded
       /\ folded' = folded + Weight(event)
       /\ accumulated_text' = s.accumulated_text
       /\ current_author' = s.current_author
       /\ live_context' = d.live_context
       /\ live' = d.live
       /\ console' = ConsoleAfter(console, s.ops)
       /\ stepOut' = s.ops
       /\ hist' = Append(hist, event)
  /\ UNCHANGED <<pc, user_input, turns, chatOnly, others>>

\* lines 259-271: the stream ends and process_agent_stream returns
ToolStreamEnd ==
  /\ script = "tool"
  /\ pc = "stream"
  /\ pc' = "prompt"
  /\ live_context' = DisplayAfter([live |-> live,
                                   live_context |-> live_context],
                                  ToolFinalOps).live_context
  /\ console' = ConsoleAfter(console, ToolFinalOps)
  /\ stepOut' = ToolFinalOps
  /\ UNCHANGED <<user_input, locals, live, hist, turns, folded, others>>

\* line 219: the stream raises; nothing stops the Live object
ToolStreamRaise ==
  /\ script = "tool"
  /\ pc = "stream"
  /\ pc' = "failed"
  /\ UNCHANGED <<user_input, locals, live, live_context, console, stepOut,
                 hist, turns, folded, others>>

\* lines 307-317: the task list is exhausted
ToolDone ==
  /\ script = "tool"
  /\ pc = "prompt"
  /\ turns > 0
  /\ pc' = "exited"
  /\ UNCHANGED <<user_input, locals, live, live_context, console, stepOut,
                 hist, turns, folded, others>>

\* ============================================================ 4_swarm.py
\* print_agent_event, lines 88-178, applied to the AgentRunResponseUpdate in
\* event.data.  main reads the text and the author of the result only.
Swarm4Result(has, text, author, ctype) ==
  [has |-> has, text |-> text, author |-> author, content_type |-> ctype]

Swarm4InitLocals ==
  [text_delta |-> <<>>, content_type |-> "None", function_calls |-> <<>>,
   function_results |-> <<>>, usage_detected |-> FALSE]

\* lines 108-132
Swarm4ScanContent(loc, content) ==
  CASE content.type = "TextContent" ->
         [loc EXCEPT !.text_delta = content.text,
                     !.content_type = IF content.text # <<>>
                                      THEN "text" ELSE @]
    [] content.type = "FunctionCallContent" ->
         [loc EXCEPT !.function_calls =
                        Append(@, [name |-> content.name,
                                   arguments |-> content.arguments,
                                   call_id |-> content.call_id]),
                     !.content_type = IF @ = "None"
                                      THEN "function_call" ELSE @]
    [] content.type = "FunctionResultContent" ->
         IF content.result # <<>>
         THEN [loc EXCEPT !.function_results =
                             Append(@, [result |-> content.result,
                                        call_id |-> content.call_id]),
                          !.content_type = IF @ = "None"
                                           THEN "function_result" ELSE @]
         ELSE loc
    [] content.type = "UsageContent" ->
         [loc EXCEPT !.usage_detected = TRUE, !.content_type = "usage"]
    [] OTHER -> loc

RECURSIVE Swarm4ScanContents(_, _)
Swarm4ScanContents(loc, contents) ==
  IF contents = <<>> THEN loc
  ELSE Swarm4ScanContents(Swarm4ScanContent(loc, Head(contents)),
                          Tail(contents))

\* lines 98-178
Swarm4ClassifyUpdate(author, contents) ==
  LET loc == Swarm4ScanContents(Swarm4InitLocals, contents) IN
  IF loc.usage_detected THEN Swarm4Result(TRUE, <<>>, author, "usage")
  ELSE IF loc.function_calls # <<>>
  THEN Swarm4Result(TRUE, <<>>, author, "function_call")
  ELSE IF loc.function_results # <<>>
  THEN Swarm4Result(TRUE, <<>>, author, "function_result")
  ELSE Swarm4Result(TRUE, loc.text_delta, author, loc.content_type)

Swarm4NoneResult == Swarm4Result(FALSE, <<>>, "", "None")

\* lines 186-214: the first item that decides returns
RECURSIVE Swarm4ClassifyData(_, _)
Swarm4ClassifyData(author, contents) ==
  IF contents = <<>> THEN Swarm4NoneResult
  ELSE LET content == Head(contents) IN
    IF content.type = "TextContent" /\ content.text # <<>>
    THEN Swarm4Result(TRUE, content.text, author, "text")
    ELSE IF content.type = "FunctionCallContent" /\ content.name # ""
    THEN Swarm4Result(TRUE, <<>>, author, "function_call")
    ELSE IF content.type = "FunctionResultContent" /\ content.result # <<>>
    THEN Swarm4Result(TRUE, <<>>, author, "function_result")
    ELSE Swarm4ClassifyData(author, Tail(contents))

\* lines 88-216: the classification and the number of invocations of
\* print_agent_event it took
RECURSIVE Swarm4Classify(_, _)
Swarm4Classify(event, calls) ==
  IF event.kind = "update"
  THEN [result |-> Swarm4ClassifyUpdate(event.author, event.contents),
        calls |-> calls]
  ELSE IF HasData(event)
  THEN LET data == Data(event) IN
       IF data.kind = "update"
       THEN Swarm4Classify(data, calls + 1)
       ELSE [result |-> Swarm4ClassifyData(DataAuthor(data),
                                           DataContents(data)),
             calls |-> calls]
  ELSE [result |-> Swarm4NoneResult, calls |-> calls]

swarm4_print_agent_event(data) == Swarm4Classify(data, 1).result

\* The workflow's events: AgentRunUpdateEvent(executor_id, data), where data
\* is <<>> for None; RequestInfoEvent, whose data is a
\* HandoffUserInputRequest or not; any other event.
Swarm4Event(kind, executor_id, data, handoff) ==
  [kind |-> kind, executor_id |-> executor_id, data |-> data,
   handoff |-> handoff]

RunUpdate(executor_id, data) ==
  Swarm4Event("AgentRunUpdateEvent", executor_id, data, FALSE)

RequestInfo(handoff) == Swarm4Event("RequestInfoEvent", "", <<>>, handoff)

\* main, lines 360-408
Swarm4Locals ==
  [current_executor |-> current_executor,
   accumulated_text |-> accumulated_text,
   author_name |-> author_name,
   pending_requests |-> pending_requests,
   ops |-> <<>>]

Swarm4Subtitle(author) ==
  IF author # "" THEN << <<"Author", author>> >> ELSE <<>>

\* Swarm4ExecutorChange without the test of line 370: the previous
\* executor's panel is printed whether or not it has text.
Swarm4ExecutorChange_Unguarded(s, executor_id) ==
  LET s1 == [s EXCEPT !.ops = @ \o
                    <<LiveStop,
                      ConsolePrint(Panel("text", AuthorStr(s.current_executor),
                                         "", s.accumulated_text,
                                         Swarm4Subtitle(s.author_name)))>>]
  IN [s1 EXCEPT !.current_executor = executor_id,
                !.accumulated_text = <<>>,
                !.author_name = ""]

\* lines 369-383
Swarm4ExecutorChange(s, executor_id) ==
  LET s1 == IF s.accumulated_text # <<>>
            THEN [s EXCEPT !.ops = @ \o
                    <<LiveStop,
                      ConsolePrint(Panel("text", AuthorStr(s.current_executor),
                                         "", s.accumulated_text,
                                         Swarm4Subtitle(s.author_name)))>>]
            ELSE s
  IN [s1 EXCEPT !.current_executor = executor_id,
                !.accumulated_text = <<>>,
                !.author_name = ""]

\* lines 386-405
Swarm4Data(s, data) ==
  LET result == swarm4_print_agent_event(data)
      s1 == [s EXCEPT !.accumulated_text =
                         IF result.has THEN @ \o result.text ELSE @,
                      !.author_name =
                         IF result.has /\ result.author # ""
                         THEN result.author ELSE @]
  IN [s1 EXCEPT !.ops = Append(@, LiveUpdate(
                           Panel("text", AuthorStr(s1.current_executor), "",
                                 s1.accumulated_text,
                                 Swarm4Subtitle(s1.author_name))))]

\* lines 367-408
Swarm4LoopBody(s, event) ==
  IF event.kind = "AgentRunUpdateEvent"
  THEN LET s1 == IF s.current_executor # event.executor_id
                 THEN Swarm4ExecutorChange(s, event.executor_id) ELSE s
       IN IF event.data # <<>> THEN Swarm4Data(s1, event.data[1]) ELSE s1
  ELSE IF event.kind = "RequestInfoEvent" /\ event.handoff
  THEN [s EXCEPT !.pending_requests = @ + 1]
  ELSE s

Swarm4Events ==
  {RunUpdate("X", <<Update("A1", <<Text(<<"t">>)>>)>>),
   RunUpdate("Y", <<Update("A2", <<Text(<<"u">>)>>)>>),
   RunUpdate("X", <<>>),
   RunUpdate("Y", <<Update("", <<FunctionCall("A", "f", <<"a">>)>>)>>),
   RunUpdate("X", <<Update("A1", <<Usage(Raw10_5)>>)>>),
   RequestInfo(TRUE),
   RequestInfo(FALSE),
   Swarm4Event("WorkflowStatusEvent", "", <<>>, FALSE)}

\* lines 351-365 and 425-440: a line that is not the quit keyword starts a
\* stream, whether or not it is empty
Swarm4StartTurn ==
  /\ script = "swarm4"
  /\ pc = "prompt"
  /\ turns < MaxTurns
  /\ \E line \in InputLines :
       /\ Lower(Strip(line)) # "quit"
       /\ user_input' = Strip(line)
       /\ console' = Append(console,
                            Panel("user", "", "", <<Strip(line)>>, <<>>))
  /\ current_executor' = ""
  /\ accumulated_text' = <<>>
  /\ author_name' = ""
  /\ pending_requests' = 0
  /\ live' = Panel("text", "Agent Response", "", <<>>, <<>>)
  /\ live_context' = "started"
  /\ stepOut' = <<>>
  /\ hist' = <<>>
  /\ turns' = turns + 1
  /\ pc' = "stream"
  /\ UNCHANGED <<folded, chatOnly, current_author, script, previous_author,
                 magentic>>

\* lines 366-408; every event weighs one
Swarm4Fold(universe, maxFolded) ==
  /\ script = "swarm4"
  /\ pc = "stream"
  /\ \E event \in universe :
       LET s == Swarm4LoopBody(Swarm4Locals, event)
           d == DisplayAfter([live |-> live, live_context |-> live_context],
                             s.ops)
       IN
       /\ folded + 1 <= maxFolded
       /\ folded' = folded + 1
       /\ current_executor' = s.current_executor
       /\ accumulated_text' = s.accumulated_text
       /\ author_name' = s.author_name
       /\ pending_requests' = s.pending_requests
       /\ live_context' = d.live_context
       /\ live' = d.live
       /\ console' = ConsoleAfter(console, s.ops)
       /\ stepOut' = s.ops
       /\ hist' = Append(hist, event)
  /\ UNCHANGED <<pc, user_input, turns, chatOnly, current_author, script,
                 previous_author, magentic>>

\* lines 409-423: the stream ends and the Live block is left; the final
\* print is commented out; the loop prompts again while requests are pending
Swarm4StreamEnd ==
  /\ script = "swarm4"
  /\ pc = "stream"
  /\ pc' = IF pending_requests > 0 THEN "prompt" ELSE "exited"
  /\ live_context' = "stopped"
  /\ stepOut' = <<>>
  /\ UNCHANGED <<user_input, locals, live, console, hist, turns, folded,
                 others>>

\* ============================================ 2_magentic_orchestration.py
\* An event of the Magentic workflow: its class, the agent it names, whether
\* it carries a message object, the message's role ("" is None) and its text.
MagenticEvent(kind, agent_id, has_message, role, text) ==
  [kind |-> kind, agent_id |-> agent_id, has_message |-> has_message,
   role |-> role, text |-> text]

MagenticAgentDelta(agent_id, text) ==
  MagenticEvent("MagenticAgentDeltaEvent", agent_id, FALSE, "", text)

MagenticAgentMessage(agent_id, has_message, role, text) ==
  MagenticEvent("MagenticAgentMessageEvent", agent_id, has_message, role, text)

MagenticOrchestratorMessage(kind, text) ==
  MagenticEvent("MagenticOrchestratorMessageEvent", kind, TRUE, "", text)

MagenticFinalResult(has_message, text) ==
  MagenticEvent("MagenticFinalResultEvent", "", has_message, "", text)

\* print() : the end of the current output line
MagenticNewline == ConsolePrint(Panel("newline", "", "", <<>>, <<>>))

\* rprint(f"\n[cyan][{event.agent_id}]:[/cyan] ", end="")
MagenticHeader(agent_id) == ConsolePrint(Panel("header", agent_id, "", <<>>, <<>>))

\* print(event.text, end="") : the text alone, inline
MagenticDelta(text) == ConsolePrint(Panel("delta", "", "", text, <<>>))

\* lines 41-65: the content string of the panel, <<>> when it stays None
MagenticContent(event) ==
  CASE event.kind = "MagenticAgentMessageEvent" ->
         IF event.has_message
         THEN <<"Agent", event.agent_id, "Role",
                IF event.role = "" THEN "unknown" ELSE event.role>>
              \o event.text
         ELSE <<>>
    [] event.kind = "MagenticOrchestratorMessageEvent" ->
         <<"Kind", event.agent_id>> \o event.text
    [] event.kind = "MagenticFinalResultEvent" ->
         IF event.has_message THEN <<"Final Result">> \o event.text ELSE <<>>
    [] OTHER -> <<>>

\* print_agent_event, lines 29-85: a delta is written inline; any other
\* event with content is printed as a panel titled with its class name and
\* followed by an empty line
magentic_print_agent_event(event) ==
  IF event.kind = "MagenticAgentDeltaEvent"
  THEN <<MagenticDelta(event.text)>>
  ELSE IF MagenticContent(event) # <<>>
  THEN <<ConsolePrint(Panel(event.kind, "", "", MagenticContent(event), <<>>)),
         MagenticNewline>>
  ELSE <<>>

\* The callback's nonlocal state, with the writes of the current call.
MagenticLocals ==
  [last_stream_agent_id |-> last_stream_agent_id,
   stream_line_open |-> stream_line_open,
   ops |-> <<>>]

\* on_event with the test of line 136 reduced to the agent comparison.
on_event_AgentOnly(s, event) ==
  LET s1 ==
        IF event.kind = "MagenticAgentDeltaEvent"
        THEN IF s.last_stream_agent_id # event.agent_id
             THEN [s EXCEPT
                     !.ops = @ \o (IF s.stream_line_open
                                   THEN <<MagenticNewline>> ELSE <<>>)
                               \o <<MagenticHeader(event.agent_id)>>,
                     !.last_stream_agent_id = event.agent_id,
                     !.stream_line_open = TRUE]
             ELSE s
        ELSE IF event.kind \in {"MagenticAgentMessageEvent",
                                "MagenticFinalResultEvent"}
        THEN IF s.stream_line_open
             THEN [s EXCEPT !.ops = Append(@, MagenticNewline),
                            !.stream_line_open = FALSE]
             ELSE s
        ELSE s
  IN [s1 EXCEPT !.ops = @ \o magentic_print_agent_event(event)]

\* lines 132-153
on_event(s, event) ==
  LET s1 ==
        IF event.kind = "MagenticAgentDeltaEvent"
        THEN IF s.last_stream_agent_id # event.agent_id
                \/ ~s.stream_line_open
             THEN [s EXCEPT
                     !.ops = @ \o (IF s.stream_line_open
                                   THEN <<MagenticNewline>> ELSE <<>>)
                               \o <<MagenticHeader(event.agent_id)>>,
                     !.last_stream_agent_id = event.agent_id,
                     !.stream_line_open = TRUE]
             ELSE s
        ELSE IF event.kind \in {"MagenticAgentMessageEvent",
                                "MagenticFinalResultEvent"}
        THEN IF s.stream_line_open
             THEN [s EXCEPT !.ops = Append(@, MagenticNewline),
                            !.stream_line_open = FALSE]
             ELSE s
        ELSE s
  IN [s1 EXCEPT !.ops = @ \o magentic_print_agent_event(event)]

MagenticEvents ==
  {MagenticAgentDelta("researcher", <<"r">>),
   MagenticAgentDelta("analyst", <<"a">>),
   MagenticAgentMessage("researcher", TRUE, "assistant", <<"m">>),
   MagenticAgentMessage("analyst", FALSE, "", <<>>),
   MagenticOrchestratorMessage("plan", <<"p">>),
   MagenticFinalResult(TRUE, <<"f">>),
   MagenticEvent("WorkflowStatusEvent", "", FALSE, "", <<>>)}

\* lines 127-129, 178-191: the task is printed and the workflow is run
MagenticStart ==
  /\ script = "magentic"
  /\ pc = "prompt"
  /\ console' = Append(console, Panel("user", "", "", <<"task">>, <<>>))
  /\ last_stream_agent_id' = ""
  /\ stream_line_open' = FALSE
  /\ stepOut' = <<>>
  /\ hist' = <<>>
  /\ turns' = turns + 1
  /\ pc' = "stream"
  /\ UNCHANGED <<user_input, locals, live, live_context, folded, script,
                 previous_author, current_executor, author_name,
                 pending_requests>>

\* lines 191-192: the workflow yields one event, which on_event handles
MagenticFold(universe, maxFolded) ==
  /\ script = "magentic"
  /\ pc = "stream"
  /\ \E event \in universe :
       LET s == on_event(MagenticLocals, event)
       IN
       /\ folded + 1 <= maxFolded
       /\ folded' = folded + 1
       /\ last_stream_agent_id' = s.last_stream_agent_id
       /\ stream_line_open' = s.stream_line_open
       /\ console' = ConsoleAfter(console, s.ops)
       /\ stepOut' = s.ops
       /\ hist' = Append(hist, event)
  /\ UNCHANGED <<pc, user_input, locals, live, live_context, turns, script,
                 previous_author, current_executor, author_name,
                 pending_requests>>

\* lines 193-199: the stream ends; the completion line is printed when a
\* final result was seen (completion_event is the last such event of hist)
MagenticStreamEnd ==
  /\ script = "magentic"
  /\ pc = "stream"
  /\ LET done == IF \E i \in 1..Len(hist) :
                      hist[i].kind = "MagenticFinalResultEvent"
                 THEN <<ConsolePrint(Panel("completed", "", "", <<>>, <<>>))>>
                 ELSE <<>>
     IN /\ console' = ConsoleAfter(console, done)
        /\ stepOut' = done
  /\ pc' = "exited"
  /\ UNCHANGED <<user_input, locals, live, live_context, hist, turns, folded,
                 others>>

\* lines 201-203: the stream raises and the failure is reported
MagenticStreamRaise ==
  /\ script = "magentic"
  /\ pc = "stream"
  /\ console' = Append(console, Panel("failed", "", "", <<>>, <<>>))
  /\ stepOut' = <<ConsolePrint(Panel("failed", "", "", <<>>, <<>>))>>
  /\ pc' = "failed"
  /\ UNCHANGED <<user_input, locals, live, live_context, hist, turns, folded,
                 others>>

NextMagentic ==
  \/ MagenticStart
  \/ MagenticFold(MagenticEvents, MaxMagenticEvents)
  \/ MagenticStreamEnd
  \/ MagenticStreamRaise

SpecMagentic == InitOf("magentic") /\ [][NextMagentic]_vars

\* ======================================================= the four scripts
\* The quit keyword (Quit) and a raising stream inside the Live block
\* (StreamRaise) are the same in swarm_agent.py and 4_swarm.py as in
\* 1_azure_openai_chat_agent.py.
InitScripts == \E sc \in {"swarm", "tool", "swarm4"} : InitOf(sc)

NextScripts ==
  \/ Quit
  \/ StreamRaise
  \/ SwarmStartTurn
  \/ SwarmFold(SwarmEvents, MaxScriptEvents)
  \/ SwarmStreamEnd
  \/ ToolStartTask
  \/ ToolFold(ToolEvents, MaxScriptEvents)
  \/ ToolStreamEnd
  \/ ToolStreamRaise
  \/ ToolDone
  \/ Swarm4StartTurn
  \/ Swarm4Fold(Swarm4Events, MaxScriptEvents)
  \/ Swarm4StreamEnd

SpecScripts == InitScripts /\ [][NextScripts]_vars

InitAll == \E sc \in {"chat", "swarm", "tool", "swarm4"} : InitOf(sc)

NextAll ==
  \/ Quit
  \/ EmptyInput
  \/ StartTurn
  \/ FoldEvent(Events, MaxScriptEvents)
  \/ StreamEnd
  \/ StreamRaise
  \/ SwarmStartTurn
  \/ SwarmFold(SwarmEvents, MaxScriptEvents)
  \/ SwarmStreamEnd
  \/ ToolStartTask
  \/ ToolFold(ToolEvents, MaxScriptEvents)
  \/ ToolStreamEnd
  \/ ToolStreamRaise
  \/ ToolDone
  \/ Swarm4StartTurn
  \/ Swarm4Fold(Swarm4Events, MaxScriptEvents)
  \/ Swarm4StreamEnd

SpecAll == InitAll /\ [][NextAll]_vars

\* ------------------------------------------------- reading the event log
Max(S) == CHOOSE x \in S : \A y \in S : y <= x

IsUpdate(e) == e.kind \in {"update", "wrapper"}

ItemsOfType(contents, type) == SelectSeq(contents, LAMBDA c : c.type = type)

UsageEvent(e) == IsUpdate(e) /\ ItemsOfType(e.contents, "UsageContent") # <<>>

\* Every function-call fragment the event carries, in list order.
AllFragments(e) ==
  IF IsUpdate(e) THEN ItemsOfType(e.contents, "FunctionCallContent")
  ELSE <<>>

\* The fragment of the event that reaches the accumulator: the first one of
\* an update that carries no Usage item.
FoldedFragments(e) ==
  IF UsageEvent(e) \/ AllFragments(e) = <<>> THEN <<>>
  ELSE <<Head(AllFragments(e))>>

\* The events after the last Usage signal of the log.
SinceUsage(h) ==
  LET U == {i \in 1..Len(h) : UsageEvent(h[i])} IN
  IF U = {} THEN h ELSE SubSeq(h, Max(U) + 1, Len(h))

RECURSIVE FragmentLog(_, _)
FragmentLog(h, all) ==
  IF h = <<>> THEN <<>>
  ELSE (IF all THEN AllFragments(Head(h)) ELSE FoldedFragments(Head(h)))
       \o FragmentLog(Tail(h), all)

\* The key the resolution rule gives fragment i of the fragment sequence frs.
RuleKey(frs, i) ==
  LET seen == {j \in 1..i : frs[j].call_id # ""} IN
  IF seen = {} THEN "default" ELSE frs[Max(seen)].call_id

\* The argument chunks of the fragments of frs[1..n] that the rule puts
\* under key, concatenated in arrival order.
RECURSIVE RuleArguments(_, _, _)
RuleArguments(frs, key, n) ==
  IF n = 0 THEN <<>>
  ELSE RuleArguments(frs, key, n - 1)
       \o (IF RuleKey(frs, n) = key THEN frs[n].arguments ELSE <<>>)

AccumulatorFollows(frs) ==
  /\ Keys(function_call_accumulator)
       = {RuleKey(frs, i) : i \in 1..Len(frs)}
  /\ \A i \in 1..Len(function_call_accumulator) :
       function_call_accumulator[i].arguments
         = RuleArguments(frs, function_call_accumulator[i].key, Len(frs))

C2_AllChunksAccumulated ==
  pc = "stream" => AccumulatorFollows(FragmentLog(SinceUsage(hist), TRUE))

\* ------------------------------------------------------ reading the sink
\* The function-call panels among the sink operations / printed panels.
CallPrints(ops) ==
  SelectSeq(ops, LAMBDA o : o.op = "print" /\ o.panel.kind = "function_call")

CallPanels(panels) == SelectSeq(panels, LAMBDA p : p.kind = "function_call")

NamedEntries(acc) == SelectSeq(acc, LAMBDA d : d.name # "")

\* The step folds one event.
Folds == Len(hist') = Len(hist) + 1

FoldedEvent == hist'[Len(hist')]

LastEvent == hist[Len(hist)]

\* C3: handling a Usage signal prints one function-call panel for every
\* pending named accumulator entry, no more, and leaves the accumulator
\* empty; a Usage signal that finds the accumulator empty prints no
\* function-call panel.
C3_UsageDrainsOnce ==
  [][(Folds /\ UsageEvent(FoldedEvent)) =>
       LET named == NamedEntries(function_call_accumulator)
           shown == CallPrints(stepOut')
       IN /\ Len(shown) = Len(named)
          /\ \A i \in 1..Len(named) :
               \E j \in 1..Len(shown) :
                 /\ shown[j].panel.name = named[i].name
                 /\ shown[j].panel.content = named[i].arguments
          /\ CallPanels(console')
               = CallPanels(console) \o [j \in 1..Len(shown) |->
                                           shown[j].panel]
          /\ function_call_accumulator' = <<>>
          /\ last_call_id' = ""]_vars

\* Two Usage signals in a row after a named call: the call was shown by the
\* first and the second shows nothing.
C3_Witness ==
  /\ turns = 1
  /\ Len(hist) = 3
  /\ FoldedFragments(hist[1]) # <<>>
  /\ UsageEvent(hist[2])
  /\ UsageEvent(hist[3])
  /\ Len(CallPanels(console)) = 1
  /\ CallPrints(stepOut) = <<>>
  /\ function_call_accumulator = <<>>

\* C4: a step that folds anything but a Usage signal prints no function-call
\* panel and removes no accumulator entry.
C4_OnlyUsageDrains ==
  [][(Folds /\ ~UsageEvent(FoldedEvent)) =>
       /\ CallPrints(stepOut') = <<>>
       /\ CallPanels(console') = CallPanels(console)
       /\ Len(function_call_accumulator') >= Len(function_call_accumulator)
       /\ \A i \in 1..Len(function_call_accumulator) :
            function_call_accumulator'[i].key
              = function_call_accumulator[i].key]_vars

\* A named call is pending while a function result of another event is shown.
C4_Witness ==
  /\ Len(hist) >= 2
  /\ NamedEntries(function_call_accumulator) # <<>>
  /\ ItemsOfType(LastEvent.contents, "FunctionResultContent") # <<>>
  /\ stepOut # <<>>
  /\ CallPanels(console) = <<>>

\* C5 (as claimed): when the stream of a turn has ended, no named
\* accumulator entry is left that was not shown in a function-call panel.
C5_NoCallDropped ==
  (pc = "prompt" /\ turns > 0) =>
    \A i \in 1..Len(function_call_accumulator) :
      function_call_accumulator[i].name # "" =>
        \E j \in 1..Len(console) :
          /\ console[j].kind = "function_call"
          /\ console[j].name = function_call_accumulator[i].name
          /\ console[j].content = function_call_accumulator[i].arguments

\* The keys of the fragment sequence frs[1..n] in first-seen order.
RECURSIVE FirstSeenKeys(_, _)
FirstSeenKeys(frs, n) ==
  IF n = 0 THEN <<>>
  ELSE LET before == FirstSeenKeys(frs, n - 1) IN
       IF \E i \in 1..Len(before) : before[i] = RuleKey(frs, n)
       THEN before ELSE Append(before, RuleKey(frs, n))

\* The name of a key: that of its last fragment that carries a name.
RuleName(frs, key) ==
  LET N == {i \in 1..Len(frs) : RuleKey(frs, i) = key /\ frs[i].name # ""} IN
  IF N = {} THEN "" ELSE frs[Max(N)].name

\* C6: the function-call panels printed by a Usage signal are those of the
\* named keys, in the order in which the keys were first seen since the
\* accumulator was last cleared; a key with no name has no panel.
C6_FirstSeenOrder ==
  (hist # <<>> /\ UsageEvent(LastEvent)) =>
    LET frs == FragmentLog(SinceUsage(SubSeq(hist, 1, Len(hist) - 1)), FALSE)
        keys == SelectSeq(FirstSeenKeys(frs, Len(frs)),
                          LAMBDA k : RuleName(frs, k) # "")
        shown == CallPrints(stepOut)
    IN /\ Len(shown) = Len(keys)
       /\ \A i \in 1..Len(keys) :
            /\ shown[i].panel.name = RuleName(frs, keys[i])
            /\ shown[i].panel.content = RuleArguments(frs, keys[i], Len(frs))

\* An unnamed key is seen first, then B, then A: panels g, f.
C6_Witness ==
  /\ Len(hist) = 4
  /\ UsageEvent(LastEvent)
  /\ LET frs == FragmentLog(SubSeq(hist, 1, 3), FALSE) IN
       /\ Len(frs) = 3
       /\ FirstSeenKeys(frs, 3) = <<"default", "B", "A">>
  /\ Len(CallPrints(stepOut)) = 2
  /\ CallPrints(stepOut)[1].panel.name = "g"
  /\ CallPrints(stepOut)[2].panel.name = "f"

\* C7: in the sink operations of one Usage signal every function-call panel
\* comes before the update of the text panel, which is the last operation
\* and carries the usage subtitle.
C7_CallsBeforeText ==
  (hist # <<>> /\ UsageEvent(LastEvent)) =>
    \A i \in 1..Len(stepOut) :
      stepOut[i].op = "live" =>
        /\ i = Len(stepOut)
        /\ stepOut[i].panel.kind = "text"
        /\ stepOut[i].panel.content = accumulated_text
        /\ usage_tokens # <<>>
        /\ (usage_tokens[1].input_tokens >= 0
              => <<"In", usage_tokens[1].input_tokens>>
                   \in {stepOut[i].panel.subtitle[k] :
                          k \in 1..Len(stepOut[i].panel.subtitle)})

C7_Witness ==
  /\ hist # <<>>
  /\ UsageEvent(LastEvent)
  /\ Len(stepOut) >= 2
  /\ stepOut[1].op = "print"
  /\ stepOut[1].panel.kind = "function_call"
  /\ stepOut[Len(stepOut)].op = "live"
  /\ stepOut[Len(stepOut)].panel.subtitle # <<>>

\* ---------------------------------------------------- classifier claims
LastResult == print_agent_event(LastEvent)

\* The items that count as a variant being present in a content list.
IsDelta(c, type) == c.type = type /\ c.text # <<>> /\ ~c.marker

Results(contents) ==
  SelectSeq(contents,
            LAMBDA c : c.type = "FunctionResultContent" /\ c.result # <<>>)

Deltas(contents, type) == SelectSeq(contents, LAMBDA c : IsDelta(c, type))

\* The type the priority Usage > function call > function result >
\* reasoning > text gives a content list.
PriorityType(contents) ==
  IF ItemsOfType(contents, "UsageContent") # <<>> THEN "usage"
  ELSE IF ItemsOfType(contents, "FunctionCallContent") # <<>>
  THEN "function_call"
  ELSE IF Results(contents) # <<>> THEN "function_result"
  ELSE IF Deltas(contents, "TextReasoningContent") # <<>> THEN "reasoning"
  ELSE IF Deltas(contents, "TextContent") # <<>> THEN "text"
  ELSE "None"

\* C8 (as claimed): the resolved content type of an update is the
\* highest-priority variant present in its content list, whatever the order
\* of the items.
C8_PriorityOrder ==
  (hist # <<>> /\ IsUpdate(LastEvent)) =>
    LastResult.content_type = PriorityType(LastEvent.contents)

\* Usage > function call > function result, then the later of reasoning and
\* text.
LastDeltaType(contents) ==
  IF ItemsOfType(contents, "UsageContent") # <<>> THEN "usage"
  ELSE IF ItemsOfType(contents, "FunctionCallContent") # <<>>
  THEN "function_call"
  ELSE IF Results(contents) # <<>> THEN "function_result"
  ELSE LET D == {i \in 1..Len(contents) :
                   \/ IsDelta(contents[i], "TextReasoningContent")
                   \/ IsDelta(contents[i], "TextContent")}
       IN IF D = {} THEN "None"
          ELSE IF contents[Max(D)].type = "TextContent" THEN "text"
          ELSE "reasoning"

\* What the classifier computes: the resolved content type is usage, else
\* function call, else function result (non-empty), whatever the order of
\* the items, and otherwise the type of the last non-empty reasoning or text
\* item of the list; an event resolved to usage, function call or function
\* result is folded as that variant.
LastDeltaWins ==
  (hist # <<>> /\ IsUpdate(LastEvent)) =>
    LET type == LastDeltaType(LastEvent.contents) IN
    /\ LastResult.content_type = type
    /\ type = "usage" =>
         /\ usage_tokens # <<>>
         /\ function_call_accumulator = <<>>
         /\ CallPrints(stepOut) = SelectSeq(stepOut, LAMBDA o : o.op = "print")
    /\ type = "function_call" =>
         /\ stepOut = <<>>
         /\ LET frag == Head(AllFragments(LastEvent)) IN
            \E i \in 1..Len(function_call_accumulator) :
              /\ function_call_accumulator[i].key
                   = IF frag.call_id # "" THEN frag.call_id
                     ELSE IF last_call_id # "" THEN last_call_id
                     ELSE "default"
              /\ frag.name # "" =>
                   function_call_accumulator[i].name = frag.name
    /\ type = "function_result" =>
         /\ Len(stepOut) = Len(Results(LastEvent.contents))
         /\ \A i \in 1..Len(stepOut) :
              /\ stepOut[i].op = "print"
              /\ stepOut[i].panel.kind = "function_result"
              /\ stepOut[i].panel.content
                   = Results(LastEvent.contents)[i].result

\* A reasoning delta followed by a text delta in one event resolves to text.
LastDeltaWins_Witness ==
  /\ hist # <<>>
  /\ IsUpdate(LastEvent)
  /\ Len(LastEvent.contents) = 2
  /\ IsDelta(LastEvent.contents[1], "TextReasoningContent")
  /\ IsDelta(LastEvent.contents[2], "TextContent")
  /\ LastResult.content_type = "text"
  /\ accumulated_text = LastEvent.contents[2].text

\* C9 (as claimed): the update returned for an event carries every
\* function-call fragment, every function result and the text deltas of the
\* event's content list, also next to a Usage item or another
\* higher-priority item.
C9_NoItemLost ==
  (hist # <<>> /\ IsUpdate(LastEvent)) =>
    /\ Len(LastResult.function_calls) = Len(AllFragments(LastEvent))
    /\ \A i \in 1..Len(LastResult.function_calls) :
         /\ LastResult.function_calls[i].call_id
              = AllFragments(LastEvent)[i].call_id
         /\ LastResult.function_calls[i].arguments
              = AllFragments(LastEvent)[i].arguments
    /\ Len(LastResult.function_results) = Len(Results(LastEvent.contents))
    /\ Deltas(LastEvent.contents, "TextContent") # <<>>
         => LastResult.text # <<>>

Chunks(text) == {text[k] : k \in 1..Len(text)}

\* The chunks that only final-summary marker items carry.
MarkerChunks == UNION {Chunks(c.text) : c \in {i \in Items : i.marker}}

\* C10 (as claimed): the text of a final-summary marker never reaches the
\* reasoning buffer nor a reasoning panel, whatever shares its event.
C10_MarkerSuppressed ==
  /\ Chunks(accumulated_reasoning) \cap MarkerChunks = {}
  /\ live.kind = "reasoning" => Chunks(live.content) \cap MarkerChunks = {}
  /\ \A i \in 1..Len(console) :
       console[i].kind = "reasoning"
         => Chunks(console[i].content) \cap MarkerChunks = {}

\* ---------------------------------------------------- reasoning then text
\* The panels printed since the current turn's user-message panel.
TurnStart == Max({0} \cup {i \in 1..Len(console) : console[i].kind = "user"})

TurnPanels == SubSeq(console, TurnStart + 1, Len(console))

PanelsOfKind(panels, kind) == SelectSeq(panels, LAMBDA p : p.kind = kind)

RECURSIVE ConcatContent(_)
ConcatContent(panels) ==
  IF panels = <<>> THEN <<>>
  ELSE Head(panels).content \o ConcatContent(Tail(panels))

\* The event resolves to text / to reasoning.
TextEvent(e) == IsUpdate(e) /\ LastDeltaType(e.contents) = "text"

ReasoningEvent(e) == IsUpdate(e) /\ LastDeltaType(e.contents) = "reasoning"

\* The reasoning deltas folded in the events of h, in order.
RECURSIVE ReasoningFolded(_)
ReasoningFolded(h) ==
  IF h = <<>> THEN <<>>
  ELSE (IF ReasoningEvent(Head(h))
        THEN Deltas(Head(h).contents, "TextReasoningContent")
               [Len(Deltas(Head(h).contents, "TextReasoningContent"))].text
        ELSE <<>>) \o ReasoningFolded(Tail(h))

C12_ReasoningThenAnswer ==
  /\ hist = SubSeq(ReasoningScenario, 1, 3) =>
        /\ TurnPanels = <<Panel("reasoning", "A", "", <<"Let me think">>,
                                <<>>)>>
        /\ stepOut = <<ConsolePrint(TurnPanels[1]),
                       LiveUpdate(Panel("text", "A", "",
                                        <<"The answer is 4">>, <<>>))>>
        /\ live = Panel("text", "A", "", <<"The answer is 4">>, <<>>)
  /\ hist = ReasoningScenario =>
        /\ TurnPanels = <<Panel("reasoning", "A", "", <<"Let me think">>,
                                <<>>)>>
        /\ live.kind = "text"
        /\ live.author = "A"
        /\ live.content = <<"The answer is 4">>
        /\ \E i, j \in 1..Len(live.subtitle) :
              /\ i < j
              /\ live.subtitle[i] = <<"In", 10>>
              /\ live.subtitle[j] = <<"Out", 5>>
        /\ stepOut = <<LiveUpdate(live)>>

C12_Witness == hist = ReasoningScenario /\ pc = "prompt"

\* The function-call fragments among the events of h.
CallEventsOf(h) ==
  SelectSeq(h, LAMBDA e : ItemsOfType(e.contents, "FunctionCallContent")
                            # <<>>)

UsageEventsOf(h) == SelectSeq(h, LAMBDA e : UsageEvent(e))

LiveTexts(ops) ==
  {k \in 1..Len(ops) : ops[k].op = "live" /\ ops[k].panel.kind = "text"}

\* C13: the fragments (c1, get_weather, ""), ("", '{"location":'),
\* ("", '"Paris"}') followed by usage yield exactly one function-call panel,
\* for get_weather with arguments {"location":"Paris"}, printed before any
\* text panel of that flush, and leave the accumulator empty.
C13_OneCallPanel ==
  (/\ hist # <<>>
   /\ CallEventsOf(hist) = SubSeq(CallScenario, 1, 3)
   /\ UsageEventsOf(hist) = <<CallScenario[4]>>
   /\ LastEvent = CallScenario[4])
  => /\ CallPanels(TurnPanels)
          = <<Panel("function_call", "A", "get_weather",
                    <<"{\"location\":", "\"Paris\"}">>, <<>>)>>
     /\ CallPrints(stepOut) = <<ConsolePrint(CallPanels(TurnPanels)[1])>>
     /\ stepOut[1] = CallPrints(stepOut)[1]
     /\ \A k \in LiveTexts(stepOut) : k > 1
     /\ function_call_accumulator = <<>>

\* The call was flushed in front of a text panel.
C13_Witness ==
  /\ hist # <<>>
  /\ CallEventsOf(hist) = SubSeq(CallScenario, 1, 3)
  /\ LastEvent = CallScenario[4]
  /\ UsageEventsOf(hist) = <<CallScenario[4]>>
  /\ LiveTexts(stepOut) # {}

\* ------------------------------------------------- one author per text panel
TextDelta(e) ==
  Deltas(e.contents, "TextContent")
    [Len(Deltas(e.contents, "TextContent"))].text

\* The authors of the text events of h whose text the panel holds.
TextAuthors(h, panel) ==
  {h[i].author : i \in {k \in 1..Len(h) :
                          /\ TextEvent(h[k])
                          /\ Chunks(TextDelta(h[k]))
                               \cap Chunks(panel.content) # {}}}

\* C16 (as claimed): an author change with text buffered flushes that text
\* as a panel of the previous author before the new author's text
\* accumulates, so no text panel, shown or printed, holds text of two
\* different authors.
C16_OneAuthorPerTextPanel ==
  /\ live.kind = "text" => Cardinality(TextAuthors(hist, live)) <= 1
  /\ \A i \in 1..Len(TurnPanels) :
       TurnPanels[i].kind = "text"
         => Cardinality(TextAuthors(hist, TurnPanels[i])) <= 1

\* ------------------------------------------------------ author transitions
IsPrefix(s, t) == Len(s) <= Len(t) /\ SubSeq(t, 1, Len(s)) = s

TextPrints(ops) ==
  SelectSeq(ops, LAMBDA o : o.op = "print" /\ o.panel.kind = "text")

\* The author a script compares an event's author with.
TrackedAuthor ==
  CASE script = "swarm" -> previous_author
    [] script = "swarm4" -> current_executor
    [] OTHER -> current_author

\* C14: in swarm_agent.py and 3_agent_as_tool.py, folding an event finalizes
\* a text panel or restarts the text buffer only if the event's author is
\* non-empty and differs from the tracked author; an event of the tracked
\* author, or of no author, finalizes nothing and keeps the buffer.
C14_TransitionOnlyOnNewAuthor ==
  [][(Folds /\ script \in {"swarm", "tool"})
       => ((TextPrints(stepOut') # <<>>
            \/ ~IsPrefix(accumulated_text, accumulated_text'))
           => /\ FoldedEvent.author # ""
              /\ FoldedEvent.author # TrackedAuthor)
    ]_vars

\* swarm_agent.py finalized one panel at a change of author and then kept
\* buffering two chunks of one author.
C14_Witness ==
  /\ script = "swarm"
  /\ pc = "stream"
  /\ Len(PanelsOfKind(TurnPanels, "text")) = 1
  /\ Len(accumulated_text) = 2

\* The author (in 4_swarm.py the executor) an event brings.
NewAuthor(e) == IF script = "swarm4" THEN e.executor_id ELSE e.author

\* The event reaches the script's author comparison: 3_agent_as_tool.py
\* compares authors for events that carry text only, 4_swarm.py for
\* AgentRunUpdateEvents only.
ReachesComparison(e) ==
  CASE script = "swarm" -> swarm_print_agent_event(e).has
    [] script = "tool" -> tool_print_agent_event(e).text # <<>>
    [] script = "swarm4" -> e.kind = "AgentRunUpdateEvent"
    [] OTHER -> FALSE

\* The step folds an event whose author is non-empty and differs from the
\* tracked one while text is buffered.
AuthorChanges ==
  /\ Folds
  /\ script \in {"swarm", "tool", "swarm4"}
  /\ ReachesComparison(FoldedEvent)
  /\ NewAuthor(FoldedEvent) # ""
  /\ NewAuthor(FoldedEvent) # TrackedAuthor
  /\ accumulated_text # <<>>

FirstIndex(ops, P(_)) ==
  IF \E k \in 1..Len(ops) : P(ops[k])
  THEN CHOOSE k \in 1..Len(ops) :
         P(ops[k]) /\ \A j \in 1..(k - 1) : ~P(ops[j])
  ELSE Len(ops) + 1

\* One panel, of the tracked author and holding the buffered text, is printed
\* before anything of the new author is displayed; the tracked author becomes
\* the new one and the buffer keeps nothing of the old text.
FlushesPrevious ==
  /\ Len(TextPrints(stepOut')) = 1
  /\ TextPrints(stepOut')[1].panel.author = AuthorStr(TrackedAuthor)
  /\ TextPrints(stepOut')[1].panel.content = accumulated_text
  /\ FirstIndex(stepOut', LAMBDA o : o.op = "print")
       < FirstIndex(stepOut', LAMBDA o : o.op \in {"start", "live"})
  /\ stepOut'[FirstIndex(stepOut', LAMBDA o : o.op = "print")]
       = TextPrints(stepOut')[1]
  /\ TrackedAuthor' = NewAuthor(FoldedEvent)
  /\ Chunks(accumulated_text') \cap Chunks(accumulated_text) = {}

\* C15 (as claimed): in swarm_agent.py, 3_agent_as_tool.py and 4_swarm.py,
\* an event whose author (executor) differs from the tracked one while text
\* is buffered finalizes exactly one panel, of the previous author and
\* holding exactly the buffered text, before anything of the new author is
\* buffered or displayed; the tracked author becomes the new one and the
\* buffer restarts without the old text.
C15_FlushOnAuthorChange == [][AuthorChanges => FlushesPrevious]_vars

\* What the three scripts do: the flush happens when an author is already
\* tracked.  Text buffered before the first author is not flushed.
FlushOnChangeOfKnownAuthor ==
  [][(AuthorChanges /\ TrackedAuthor # "") => FlushesPrevious]_vars

C20_CallsNeverLive ==
  script \in {"chat", "swarm"} =>
    /\ live.kind \in {"empty", "reasoning", "text"}
    /\ \A k \in 1..Len(stepOut) :
         LET o == stepOut[k] IN
         /\ o.op \in {"print", "live"}
         /\ o.op = "live" =>
              \/ o.panel = EmptyLive
              \/ o.panel.kind = "reasoning"
                   /\ o.panel.content = accumulated_reasoning
              \/ o.panel.kind = "text" /\ o.panel.content = accumulated_text
         /\ o.panel.kind \in {"function_call", "function_result"}
              => o.op = "print"

\* swarm_agent.py printed a function-call panel while the Live display went
\* on showing the text buffer.
C20_Witness ==
  /\ script = "swarm"
  /\ CallPrints(stepOut) # <<>>
  /\ live.kind = "text"
  /\ live.content = accumulated_text

\* --------------------------------------------------------- end of stream
\* The last stream of the session ended without raising.
EndedNaturally == turns > 0 /\ pc \in {"prompt", "exited"}

\* C18 (as claimed): in swarm_agent.py and 3_agent_as_tool.py, a stream that
\* ends with text in the buffer has that text printed as exactly one panel,
\* the last one, whether or not an event carried an author.
C18_FinalFlush ==
  (script \in {"swarm", "tool"} /\ EndedNaturally /\ accumulated_text # <<>>)
    => /\ Len(TextPrints(stepOut)) = 1
       /\ TextPrints(stepOut)[1].panel.content = accumulated_text
       /\ console[Len(console)] = TextPrints(stepOut)[1].panel

\* C19 (as claimed): in 4_swarm.py, when the stream has ended the text of
\* the last executor is in the last printed panel or in the frame the Live
\* display shows, also after an executor change stopped the Live display.
C19_LastExecutorFlushed ==
  (script = "swarm4" /\ EndedNaturally /\ accumulated_text # <<>>)
    => \/ /\ console[Len(console)].kind = "text"
          /\ console[Len(console)].content = accumulated_text
       \/ /\ live.kind = "text"
          /\ live.content = accumulated_text

\* ---------------------------------------------------------------------
\* SpecUsage: usage payloads of both naming conventions.  Each payload
\* states the fields of one family (input/prompt, output/completion,
\* total, the two reasoning details) and leaves the others out; a field is
\* left out (Missing), states 0, or states a count that identifies it.
MaxUsageEvents == 2

UsageObj(inp, prompt, out, completion, total, otd, ctd) ==
  [input_tokens |-> inp, prompt_tokens |-> prompt,
   output_tokens |-> out, completion_tokens |-> completion,
   total_tokens |-> total,
   otd_reasoning |-> otd, ctd_reasoning |-> ctd]

UsagePayloads ==
  {UsageObj(i, p, Missing, Missing, Missing, Missing, Missing) :
     i \in {Missing, 0, 10}, p \in {Missing, 0, 7}}
  \cup {UsageObj(Missing, Missing, o, c, Missing, Missing, Missing) :
          o \in {Missing, 0, 5}, c \in {Missing, 0, 3}}
  \cup {UsageObj(Missing, Missing, Missing, Missing, t, Missing, Missing) :
          t \in {Missing, 0, 15}}
  \cup {UsageObj(Missing, Missing, Missing, Missing, Missing, r1, r2) :
          r1 \in {Missing, 0, 4}, r2 \in {Missing, 0, 2}}
  \cup {UsageObj(10, Missing, 5, Missing, 15, Missing, Missing)}

UsageRaws ==
  {[shape |-> sh, usage |-> u] :
     sh \in {"response", "direct"}, u \in UsagePayloads}
  \cup {NoRaw, [shape |-> "nousage", usage |-> NoUsageObj]}

UsageUniverse ==
  {Update("A1", <<Usage(raw)>>) : raw \in UsageRaws}
  \cup {Update("A1", <<Text(<<"t">>)>>),
        Update("A1", <<FunctionCall("A", "f", <<"a">>)>>)}

NextUsage ==
  \/ Quit
  \/ EmptyInput
  \/ StartTurn
  \/ FoldEvent(UsageUniverse, MaxUsageEvents)
  \/ StreamEnd
  \/ StreamRaise

SpecUsage == Init /\ [][NextUsage]_vars

\* ---------------------------------------------------------------------
\* Usage items folded so far in this turn whose raw representation holds a
\* usage object, and what the classifier extracted from each.
Populated(v) == v \notin {Missing, NoneVal}

FirstPopulated(a, b) == IF Populated(a) THEN a ELSE b

UsageItemOf(e) == ItemsOfType(e.contents, "UsageContent")[1]

HasPayload(e) ==
  UsageEvent(e) /\ UsageItemOf(e).raw.shape \in {"response", "direct"}

Summary(e) == print_agent_event(e).usage

\* C21: for every Usage item with a usage object (under raw.response.usage
\* or raw.usage), each extracted count is the first populated source: the
\* input count is input_tokens when that field is present, an explicit 0
\* included, and prompt_tokens otherwise; likewise output_tokens before
\* completion_tokens, and output_tokens_details.reasoning_tokens before
\* completion_tokens_details.reasoning_tokens.
C21_FirstPopulatedSource ==
  \A i \in 1..Len(hist) :
    HasPayload(hist[i]) =>
      LET u == UsageItemOf(hist[i]).raw.usage
          info == Summary(hist[i])
      IN /\ (Populated(u.input_tokens) \/ Populated(u.prompt_tokens))
              => info.input_tokens
                   = FirstPopulated(u.input_tokens, u.prompt_tokens)
         /\ (Populated(u.output_tokens) \/ Populated(u.completion_tokens))
              => info.output_tokens
                   = FirstPopulated(u.output_tokens, u.completion_tokens)
         /\ (Populated(u.otd_reasoning) \/ Populated(u.ctd_reasoning))
              => info.reasoning_tokens
                   = FirstPopulated(u.otd_reasoning, u.ctd_reasoning)

\* The same preference restricted to payloads whose first source is not 0:
\* there the extraction does take the first populated source.
FirstTruthySource ==
  \A i \in 1..Len(hist) :
    HasPayload(hist[i]) =>
      LET u == UsageItemOf(hist[i]).raw.usage
          info == Summary(hist[i])
      IN /\ Truthy(u.input_tokens) => info.input_tokens = u.input_tokens
         /\ (~Populated(u.input_tokens) /\ Populated(u.prompt_tokens))
              => info.input_tokens = u.prompt_tokens
         /\ Truthy(u.output_tokens) => info.output_tokens = u.output_tokens
         /\ (~Populated(u.output_tokens) /\ Populated(u.completion_tokens))
              => info.output_tokens = u.completion_tokens
         /\ Truthy(u.otd_reasoning)
              => info.reasoning_tokens = u.otd_reasoning
         /\ (~Populated(u.otd_reasoning) /\ Truthy(u.ctd_reasoning))
              => info.reasoning_tokens = u.ctd_reasoning

\* ---------------------------------------------------------------------
\* What a usage object states for each of the four counts, Missing when it
\* states none.
Stated(u) ==
  [input_tokens |-> FirstPopulated(u.input_tokens, u.prompt_tokens),
   output_tokens |-> FirstPopulated(u.output_tokens, u.completion_tokens),
   total_tokens |-> u.total_tokens,
   reasoning_tokens |-> FirstPopulated(u.otd_reasoning, u.ctd_reasoning)]

CountNames ==
  {"input_tokens", "output_tokens", "total_tokens", "reasoning_tokens"}

LabelOf(k) ==
  CASE k = "input_tokens" -> "In"
    [] k = "output_tokens" -> "Out"
    [] k = "reasoning_tokens" -> "Reasoning"
    [] OTHER -> "Total"

SubtitleValue(subtitle, label) ==
  LET parts == SelectSeq(subtitle, LAMBDA p : p[1] = label)
  IN IF parts = <<>> THEN Missing ELSE parts[1][2]

\* C22: a count the usage payload does not state is absent from the
\* extracted summary and from the text panel's subtitle, and a 0 is in the
\* summary or the subtitle only when the payload states 0 for that count.
C22_UnstatedCountsAbsent ==
  (hist # <<>> /\ HasPayload(LastEvent)) =>
    LET stated == Stated(UsageItemOf(LastEvent).raw.usage)
        info == Summary(LastEvent)
    IN \A k \in CountNames :
         /\ ~Populated(stated[k]) => ~Populated(info[k])
         /\ info[k] = 0 => stated[k] = 0
         /\ (accumulated_text # <<>> /\ live.kind = "text") =>
              /\ ~Populated(stated[k])
                   => SubtitleValue(live.subtitle, LabelOf(k)) = Missing
              /\ SubtitleValue(live.subtitle, LabelOf(k)) = 0
                   => stated[k] = 0

\* What does hold: the subtitle shows exactly the counts of the extracted
\* summary, and the reasoning count is never a fabricated 0.
SubtitleShowsSummary ==
  (hist # <<>> /\ HasPayload(LastEvent) /\ accumulated_text # <<>>) =>
    /\ live.kind = "text"
    /\ \A k \in CountNames :
         SubtitleValue(live.subtitle, LabelOf(k))
           = IF Populated(Summary(LastEvent)[k])
             THEN Summary(LastEvent)[k] ELSE Missing
    /\ Summary(LastEvent).reasoning_tokens # 0

\* ---------------------------------------------------------------------
\* SpecNoPayload: text, calls and Usage items with and without a usage
\* payload.
NoPayloadEvents ==
  {Update("A1", <<Text(<<"t">>)>>),
   Update("A1", <<FunctionCall("A", "f", <<"a">>)>>),
   Update("A1", <<FunctionCall("", "", <<"x">>)>>),
   Update("A1", <<Usage(NoRaw)>>),
   Update("A1", <<Usage([shape |-> "nousage", usage |-> NoUsageObj])>>),
   Update("A1", <<Usage(Raw10_5)>>)}

NextNoPayload ==
  \/ Quit
  \/ EmptyInput
  \/ StartTurn
  \/ FoldEvent(NoPayloadEvents, MaxEvents)
  \/ StreamEnd
  \/ StreamRaise

SpecNoPayload == Init /\ [][NextNoPayload]_vars

\* a Usage event none of whose Usage items carries a usage object
NoPayload(e) ==
  /\ UsageEvent(e)
  /\ \A i \in 1..Len(e.contents) :
       e.contents[i].type = "UsageContent"
         => e.contents[i].raw.shape \in {"none", "nousage"}

\* C23: a Usage item without a usage payload (no raw representation, or one
\* without a usage object) classifies as a usage signal with an empty
\* summary; folding it prints the pending named calls, clears the
\* accumulator and the last-seen id, shows the text panel without a
\* subtitle when there is text, and the stream goes on.
C23_NoPayloadIsSignal ==
  [][(Folds /\ NoPayload(FoldedEvent)) =>
       LET result == print_agent_event(FoldedEvent)
           named == NamedEntries(function_call_accumulator)
       IN /\ result.has
          /\ result.content_type = "usage"
          /\ result.usage = EmptyUsageInfo
          /\ usage_tokens' = <<EmptyUsageInfo>>
          /\ Len(console') = Len(console) + Len(named)
          /\ \A i \in 1..Len(named) :
               /\ console'[Len(console) + i].kind = "function_call"
               /\ console'[Len(console) + i].name = named[i].name
               /\ console'[Len(console) + i].content = named[i].arguments
          /\ function_call_accumulator' = <<>>
          /\ last_call_id' = ""
          /\ accumulated_text # <<>> =>
               /\ live'.kind = "text"
               /\ live'.content = accumulated_text
               /\ live'.subtitle = <<>>
          /\ accumulated_text' = accumulated_text
          /\ pc' = "stream"]_vars

\* Text and a named call, then a Usage item without payload: the call is
\* printed, the accumulator is empty and the text panel has no subtitle.
C23_Witness ==
  /\ Len(hist) = 3
  /\ NoPayload(hist[3])
  /\ accumulated_text # <<>>
  /\ live.kind = "text"
  /\ live.subtitle = <<>>
  /\ function_call_accumulator = <<>>
  /\ CallPanels(console) # <<>>
  /\ usage_tokens = <<EmptyUsageInfo>>

\* ---------------------------------------------------------------------
\* An event that is no update and wraps nothing usable.
Unrecognized(e) == e.kind \in {"bare", "wrapper2"}

\* C24: in 1_azure_openai_chat_agent.py and swarm_agent.py an event of
\* unrecognized shape classifies to None, and folding it changes nothing
\* of the session: the text and reasoning buffers, the tracked authors, the
\* accumulator, the last-seen id, the phase flag, the usage, the live
\* display and the finalized panels stay as they were, and the stream goes
\* on.
C24_UnrecognizedIsNoOp ==
  [][(Folds /\ script \in {"chat", "swarm"} /\ Unrecognized(FoldedEvent)) =>
       /\ script = "chat" => ~print_agent_event(FoldedEvent).has
       /\ script = "swarm" => ~swarm_print_agent_event(FoldedEvent).has
       /\ UNCHANGED <<locals, live, console, live_context, previous_author,
                      user_input, pc>>
       /\ stepOut' = <<>>
       /\ pc' = "stream"]_vars

\* A reasoning fragment is pending when the unrecognized event arrives.
C24_Witness ==
  /\ script = "chat"
  /\ pc = "stream"
  /\ Len(hist) >= 2
  /\ Unrecognized(LastEvent)
  /\ reasoning_active
  /\ accumulated_reasoning # <<>>

\* ---------------------------------------------------------------------
\* SpecNesting: updates, events wrapping an update, events wrapping an
\* object with contents, doubly nested events and bare events, given to
\* the classifiers of 1_azure_openai_chat_agent.py and of 4_swarm.py.
NestingEvents ==
  {Update("A1", <<Text(<<"t">>)>>),
   Event("wrapper", "A1", <<Text(<<"w">>)>>),
   Event("wrapper", "A2", <<FunctionCall("A", "f", <<"a">>)>>),
   Event("data", "A1", <<Text(<<"d">>)>>),
   Event("data", "", <<>>),
   Event("wrapper2", "A1", <<Text(<<"x">>)>>),
   Event("bare", "", <<>>)}

Swarm4NestingEvents ==
  {RunUpdate("X", <<e>>) : e \in NestingEvents} \cup {RequestInfo(TRUE)}

InitNesting == \E sc \in {"chat", "swarm4"} : InitOf(sc)

NextNesting ==
  \/ Quit
  \/ EmptyInput
  \/ StartTurn
  \/ FoldEvent(NestingEvents, MaxEvents)
  \/ StreamEnd
  \/ StreamRaise
  \/ Swarm4StartTurn
  \/ Swarm4Fold(Swarm4NestingEvents, MaxEvents)
  \/ Swarm4StreamEnd

SpecNesting == InitNesting /\ [][NextNesting]_vars

\* The objects handed to print_agent_event so far in this turn, and what
\* classifying each of them did.
Classified ==
  IF script = "chat" THEN hist
  ELSE LET withData == SelectSeq(hist, LAMBDA e :
                         e.kind = "AgentRunUpdateEvent" /\ e.data # <<>>)
       IN [i \in 1..Len(withData) |-> withData[i].data[1]]

ClassifyOf(e) ==
  IF script = "chat"
  THEN [has |-> Classify(e, 1).result.has,
        text |-> Classify(e, 1).result.text,
        author |-> Classify(e, 1).result.author,
        content_type |-> Classify(e, 1).result.content_type,
        calls |-> Classify(e, 1).calls]
  ELSE [has |-> Swarm4Classify(e, 1).result.has,
        text |-> Swarm4Classify(e, 1).result.text,
        author |-> Swarm4Classify(e, 1).result.author,
        content_type |-> Swarm4Classify(e, 1).result.content_type,
        calls |-> Swarm4Classify(e, 1).calls]

\* C25: print_agent_event unwraps at most one level: classifying an event
\* takes at most two invocations, the second one only for an event whose
\* data is an AgentRunResponseUpdate; such an event classifies exactly as
\* the update it wraps, and an event whose data is itself only a wrapper
\* classifies to None.
C25_OneLevelOfUnwrapping ==
  script \in {"chat", "swarm4"} =>
    \A i \in 1..Len(Classified) :
      LET e == Classified[i]
          c == ClassifyOf(e)
      IN /\ c.calls <= 2
         /\ c.calls = 2 <=> e.kind = "wrapper"
         /\ e.kind = "wrapper" =>
              /\ [c EXCEPT !.calls = 1] = ClassifyOf(Data(e))
              /\ IF script = "chat"
                 THEN print_agent_event(e) = print_agent_event(Data(e))
                 ELSE swarm4_print_agent_event(e)
                        = swarm4_print_agent_event(Data(e))
         /\ e.kind = "wrapper2" => ~c.has

\* A wrapped update was folded as its inner update, and a doubly nested
\* event after it left the text as it was.
C25_Witness ==
  /\ script = "chat"
  /\ Len(hist) = 2
  /\ hist[1].kind = "wrapper"
  /\ hist[2].kind = "wrapper2"
  /\ accumulated_text = <<"w">>
  /\ current_author = "A1"

\* ---------------------------------------------------------------------
\* C26: in 1_azure_openai_chat_agent.py and swarm_agent.py a failure of the
\* event source in the middle of a turn ends the run: no step follows it
\* (no recovery, no retry), and the failing step emits no panel for the
\* text, reasoning or calls accumulated so far and leaves the panels
\* finalized earlier, the buffers and the accumulator as they were.
C26_RaiseIsNotFlushed ==
  [][(script \in {"chat", "swarm"}) =>
       /\ pc # "failed"
       /\ (pc = "stream" /\ pc' = "failed") =>
            (/\ console' = console
             /\ UNCHANGED <<locals, previous_author, live, hist>>)]_vars

\* The source failed while text and a named call were pending, and only
\* the user's panel has been finalized.
C26_Witness ==
  /\ script = "chat"
  /\ pc = "failed"
  /\ accumulated_text # <<>>
  /\ NamedEntries(function_call_accumulator) # <<>>
  /\ Len(console) = 1
  /\ console[1].kind = "user"

\* ---------------------------------------------------------------------
\* The stripped input lines that are the quit keyword in some casing.
QuitKeywords == {"quit", "QUIT", "Quit"}

Interactive == script \in {"chat", "swarm", "swarm4"}

\* C27: in 1_azure_openai_chat_agent.py, 4_swarm.py and swarm_agent.py a
\* line read at a prompt that is the quit keyword in any casing ends the
\* input loop: no turn and no stream starts, no panel is emitted by that
\* step, and nothing happens after it.
C27_QuitEndsLoop ==
  [][Interactive =>
       /\ pc # "exited"
       /\ (pc = "prompt" /\ user_input' \in QuitKeywords) =>
            (/\ pc' = "exited"
             /\ turns' = turns
             /\ UNCHANGED <<locals, previous_author, current_executor,
                            author_name, pending_requests, live,
                            live_context, console, hist>>)]_vars

\* The keyword in upper case was read at the prompt after a first turn.
C27_Witness ==
  /\ script = "chat"
  /\ pc = "exited"
  /\ user_input = "QUIT"
  /\ turns = 1
  /\ hist # <<>>

\* ---------------------------------------------------------------------
\* C28: in 1_azure_openai_chat_agent.py, 4_swarm.py and swarm_agent.py an
\* empty input line read at a prompt re-prompts: the script stays at the
\* prompt, no turn and no stream starts, and the session state is as it
\* was.
C28_EmptyInputReprompts ==
  [][(Interactive /\ pc = "prompt" /\ user_input' = "") =>
       (/\ pc' = "prompt"
        /\ turns' = turns
        /\ UNCHANGED <<locals, previous_author, current_executor,
                       author_name, pending_requests, live, live_context,
                       console, hist>>)]_vars

\* The same for 1_azure_openai_chat_agent.py alone, where it holds.
ChatEmptyInputReprompts ==
  [][(script = "chat" /\ pc = "prompt" /\ user_input' = "") =>
       (/\ pc' = "prompt"
        /\ turns' = turns
        /\ UNCHANGED <<locals, live, live_context, console, hist>>)]_vars

\* ---------------------------------------------------------------------
\* SpecUnkeyed: function calls of a source that gives call ids and of one
\* that gives none, so that a call starts with a fragment that has a name
\* and no id.
UnkeyedCallEvents ==
  {Update("", <<FunctionCall("A", "f", <<"a">>)>>),
   Update("", <<FunctionCall("B", "g", <<>>)>>),
   Update("", <<FunctionCall("", "", <<"x">>)>>),
   Update("", <<FunctionCall("", "f", <<"a">>)>>),
   Update("", <<FunctionCall("", "g", <<"b">>)>>),
   Update("", <<Usage(Raw10_5)>>)}

NextUnkeyed ==
  \/ Quit
  \/ EmptyInput
  \/ StartTurn
  \/ FoldEvent(UnkeyedCallEvents, MaxCallEvents)
  \/ StreamEnd
  \/ StreamRaise

SpecUnkeyed == Init /\ [][NextUnkeyed]_vars

\* The fragments folded in this turn, each with the key the loop resolved
\* for it (lines 356-362, the last-seen id being reset by a Usage signal)
\* and the number of the model response it came in (Usage signals before
\* it).
RECURSIVE KeyedFragments(_, _, _)
KeyedFragments(h, last, resp) ==
  IF h = <<>> THEN <<>>
  ELSE LET e == Head(h) IN
    IF UsageEvent(e) THEN KeyedFragments(Tail(h), "", resp + 1)
    ELSE IF FoldedFragments(e) = <<>>
    THEN KeyedFragments(Tail(h), last, resp)
    ELSE LET f == FoldedFragments(e)[1] IN
         <<[key |-> ResolveCallId(f.call_id, last), call_id |-> f.call_id,
            name |-> f.name, resp |-> resp]>>
           \o KeyedFragments(Tail(h), NextLastCallId(f.call_id, last), resp)

\* The function invocation fragment k belongs to: the one its call id
\* names, and for a fragment without id the invocation started last in the
\* same response, a start being a fragment that carries an id or a name.
Invocation(frs, k) ==
  IF frs[k].call_id # ""
  THEN [resp |-> frs[k].resp, id |-> frs[k].call_id, start |-> 0]
  ELSE LET starts == {j \in 1..k : /\ frs[j].resp = frs[k].resp
                                   /\ (frs[j].call_id # ""
                                         \/ frs[j].name # "")}
       IN IF starts = {}
          THEN [resp |-> frs[k].resp, id |-> "", start |-> 0]
          ELSE [resp |-> frs[k].resp, id |-> frs[Max(starts)].call_id,
                start |-> IF frs[Max(starts)].call_id # ""
                          THEN 0 ELSE Max(starts)]

\* C29: within a turn all fragments accumulated under one key belong to one
\* and the same function invocation, the key "default" and keys seen again
\* after a Usage signal included.
C29_KeyNamesOneInvocation ==
  LET frs == KeyedFragments(hist, "", 0) IN
  \A i, j \in 1..Len(frs) :
    frs[i].key = frs[j].key => Invocation(frs, i) = Invocation(frs, j)

\* Two calls without ids in one response end up in one entry: it has the
\* name of the second and the argument chunks of both.
DefaultEntryMerged ==
  /\ Len(hist) = 2
  /\ hist[1] = Update("", <<FunctionCall("", "f", <<"a">>)>>)
  /\ hist[2] = Update("", <<FunctionCall("", "g", <<"b">>)>>)
  /\ Len(function_call_accumulator) = 1
  /\ function_call_accumulator[1].key = "default"
  /\ function_call_accumulator[1].name = "g"
  /\ function_call_accumulator[1].arguments = <<"a", "b">>

\* ---------------------------------------------------------------------
\* SpecPhase: reasoning and text deltas, alone and mixed in one content
\* list, among them a list whose last reasoning item is empty.
PhaseEvents ==
  {Update("A1", <<Reasoning(<<"r">>, FALSE)>>),
   Update("A1", <<Text(<<"t">>)>>),
   Update("A1", <<Reasoning(<<"r">>, FALSE), Text(<<"t">>)>>),
   Update("A1", <<Text(<<"t">>), Reasoning(<<"r">>, FALSE),
                  Reasoning(<<>>, FALSE)>>),
   Update("A1", <<Usage(Raw10_5)>>)}

NextPhase ==
  \/ Quit
  \/ EmptyInput
  \/ StartTurn
  \/ FoldEvent(PhaseEvents, MaxEvents)
  \/ StreamEnd
  \/ StreamRaise

SpecPhase == Init /\ [][NextPhase]_vars

\* The step folds an event and appends its text to the text buffer.
TextFolded ==
  /\ Folds
  /\ script = "chat"
  /\ accumulated_text' # accumulated_text

\* The phase flag and the reasoning buffer go together.
ReasoningFlagMatchesBuffer ==
  script = "chat" => (reasoning_active <=> accumulated_reasoning # <<>>)

\* C30: in every state of a turn reasoning_active is set exactly when
\* accumulated_reasoning is non-empty, and right after a non-empty text
\* item has been folded the flag is clear and the buffer is empty.
C30_PhaseFlagAndBuffer ==
  [][(script = "chat") =>
       /\ reasoning_active' <=> accumulated_reasoning' # <<>>
       /\ TextFolded =>
            (~reasoning_active' /\ accumulated_reasoning' = <<>>)]_vars

\* ---------------------------------------------------------------------
\* C31: within a turn of 1_azure_openai_chat_agent.py the text buffer only
\* grows: the buffer before a step is a prefix of the buffer after it,
\* whatever the event (Usage signal, function call, function result,
\* another author), so the text panel shown at a Usage signal holds the
\* whole buffer, the text of any text panel shown earlier in the turn
\* included.
C31_TextOnlyAppended ==
  [][(script = "chat" /\ turns' = turns) =>
       /\ IsPrefix(accumulated_text, accumulated_text')
       /\ (live.kind = "text" /\ live'.kind = "text")
            => IsPrefix(live.content, live'.content)
       /\ (Folds /\ UsageEvent(FoldedEvent) /\ accumulated_text # <<>>) =>
            (/\ live'.kind = "text"
             /\ live'.content = accumulated_text
             /\ accumulated_text' = accumulated_text)]_vars

\* Two Usage signals in one turn, text before each: the panel of the second
\* holds the text of both.
C31_Witness ==
  /\ script = "chat"
  /\ Len(hist) = 4
  /\ TextEvent(hist[1]) /\ UsageEvent(hist[2])
  /\ TextEvent(hist[3]) /\ UsageEvent(hist[4])
  /\ live.kind = "text"
  /\ live.content = TextDelta(hist[1]) \o TextDelta(hist[3])
  /\ live.subtitle # <<>>

\* ---------------------------------------------------------------------
\* The reasoning a reader of the terminal can see: the finalized reasoning
\* panels of the turn, then the live display if it shows reasoning.
ReasoningShown ==
  ConcatContent(PanelsOfKind(TurnPanels, "reasoning"))
    \o (IF live.kind = "reasoning" THEN live.content ELSE <<>>)

\* C32: when the stream of a turn of 1_azure_openai_chat_agent.py has
\* ended, every reasoning delta folded in the turn is in a finalized
\* reasoning panel or in what the live display shows last, also when the
\* reasoning was followed by a Usage signal, a function call or the end of
\* the stream and not by text.
C32_ReasoningNeverLost ==
  (script = "chat" /\ EndedNaturally) => ReasoningShown = ReasoningFolded(hist)

\* The same for turns in which no text was folded, where it holds.
ReasoningKeptWithoutText ==
  (script = "chat" /\ EndedNaturally /\ accumulated_text = <<>>)
    => ReasoningShown = ReasoningFolded(hist)

\* After text, a reasoning delta and a Usage signal the live display shows
\* the text panel and the reasoning is in no panel.
ReasoningOverwritten ==
  /\ script = "chat"
  /\ EndedNaturally
  /\ Len(hist) = 3
  /\ TextEvent(hist[1]) /\ ReasoningEvent(hist[2]) /\ UsageEvent(hist[3])
  /\ live.kind = "text"
  /\ accumulated_reasoning # <<>>
  /\ PanelsOfKind(TurnPanels, "reasoning") = <<>>

\* ---------------------------------------------------------------------
\* C33: an accumulator entry keeps the author tracked when it was created:
\* a fold that is no Usage signal leaves every entry in place with its key
\* and author and gives a new entry the author tracked after that fold's
\* author update; the Usage signal prints each named entry under the
\* author stored in it, whoever is tracked by then.
C33_EntryKeepsCreationAuthor ==
  [][(script = "chat" /\ Folds) =>
       LET acc == function_call_accumulator
           named == NamedEntries(acc)
           shown == CallPrints(stepOut')
       IN IF UsageEvent(FoldedEvent)
          THEN /\ Len(shown) = Len(named)
               /\ \A i \in 1..Len(named) :
                    /\ shown[i].panel.name = named[i].name
                    /\ shown[i].panel.author = AuthorStr(named[i].author)
          ELSE /\ Len(function_call_accumulator') >= Len(acc)
               /\ \A i \in 1..Len(acc) :
                    /\ function_call_accumulator'[i].key = acc[i].key
                    /\ function_call_accumulator'[i].author = acc[i].author
               /\ \A i \in (Len(acc) + 1)..Len(function_call_accumulator') :
                    function_call_accumulator'[i].author = current_author'
    ]_vars

\* An entry created under A1 got a fragment while A2 was tracked, and the
\* Usage signal printed its panel under A1.
C33_Witness ==
  /\ script = "chat"
  /\ Len(hist) = 4
  /\ UsageEvent(hist[4])
  /\ current_author = "A2"
  /\ Len(CallPrints(stepOut)) = 1
  /\ CallPrints(stepOut)[1].panel.author = "A1"
  /\ CallPrints(stepOut)[1].panel.content = <<"a", "x">>

\* ---------------------------------------------------------------------
\* The named function-call fragments folded in this turn.
NamedFragments ==
  SelectSeq(FragmentLog(hist, FALSE), LAMBDA f : f.name # "")

\* C34: every turn of 1_azure_openai_chat_agent.py starts from the same
\* state whatever the turns before left behind: empty text and reasoning
\* buffers, no tracked author, no last-seen id, flag clear, no usage, empty
\* accumulator; so the function-call panels of a turn all come from
\* fragments of that turn.
C34_TurnStartsClean ==
  [][(script = "chat") =>
       /\ (turns' = turns + 1) =>
            (/\ accumulated_text' = <<>>
             /\ accumulated_reasoning' = <<>>
             /\ current_author' = ""
             /\ last_call_id' = ""
             /\ ~reasoning_active'
             /\ usage_tokens' = <<>>
             /\ function_call_accumulator' = <<>>
             /\ live' = EmptyLive)
       /\ Len(CallPanels(TurnPanels')) <= Len(NamedFragments')]_vars

\* A second turn handled a Usage signal and showed no function call,
\* something having been folded in the first turn.
C34_Witness ==
  /\ script = "chat"
  /\ turns = 2
  /\ folded > Len(hist)
  /\ hist # <<>>
  /\ UsageEvent(LastEvent)
  /\ CallPanels(TurnPanels) = <<>>
  /\ CallPanels(console) = <<>>

\* ---------------------------------------------------------------------
\* The function-result items of an event that carry a result, and the
\* function-result panels a step printed.
ResultItems(e) ==
  SelectSeq(e.contents,
            LAMBDA c : c.type = "FunctionResultContent" /\ c.result # <<>>)

ResultPrints(ops) ==
  SelectSeq(ops, LAMBDA o : o.op = "print"
                              /\ o.panel.kind = "function_result")

ResultsPrinted ==
  /\ Len(ResultPrints(stepOut')) = Len(ResultItems(FoldedEvent))
  /\ \A i \in 1..Len(ResultItems(FoldedEvent)) :
       ResultPrints(stepOut')[i].panel.content
         = ResultItems(FoldedEvent)[i].result
  /\ PanelsOfKind(console', "function_result")
       = PanelsOfKind(console, "function_result")
           \o [i \in 1..Len(ResultPrints(stepOut')) |->
                 ResultPrints(stepOut')[i].panel]

\* C35: in 1_azure_openai_chat_agent.py and swarm_agent.py the fold of an
\* event prints exactly one function-result panel for every function-result
\* item of the event that has a non-empty result, in the order of the
\* content list, whatever other items share the event.
C35_EveryResultShownOnce ==
  [][(script \in {"chat", "swarm"} /\ Folds /\ IsUpdate(FoldedEvent))
       => ResultsPrinted]_vars

\* The same for events without a Usage item and without a function call,
\* where it holds.
ResultsShownWithoutCallOrUsage ==
  [][(script \in {"chat", "swarm"} /\ Folds /\ IsUpdate(FoldedEvent)
        /\ ~UsageEvent(FoldedEvent) /\ AllFragments(FoldedEvent) = <<>>)
       => ResultsPrinted]_vars

\* ---------------------------------------------------------------------
\* The text chunks folded in this turn, in arrival order, each with the
\* author tracked while it was received (the last author named by an event
\* up to and including its own, "" when none was named yet).
RECURSIVE TextLog(_, _)
TextLog(h, tracked) ==
  IF h = <<>> THEN <<>>
  ELSE LET e == Head(h)
           now == IF IsUpdate(e) /\ e.author # "" THEN e.author ELSE tracked
       IN (IF TextEvent(e)
           THEN [k \in 1..Len(TextDelta(e)) |->
                   [text |-> TextDelta(e)[k], tracked |-> now]]
           ELSE <<>>) \o TextLog(Tail(h), now)

\* Panel k of the finalized text panels holds the chunks of the log from
\* position Offset(panels, k) + 1 on.
RECURSIVE Offset(_, _)
Offset(panels, k) ==
  IF k <= 1 THEN 0 ELSE Offset(panels, k - 1) + Len(panels[k - 1].content)

\* C36: in swarm_agent.py the finalized text panels of a turn hold the text
\* deltas in arrival order, each at most once, and every panel holds only
\* text received while the author of its title was tracked; text received
\* before any author was seen is in no panel of a later author.
C36_TextAttributedOnce ==
  script = "swarm" =>
    LET log == TextLog(hist, "")
        panels == PanelsOfKind(TurnPanels, "text")
        all == ConcatContent(panels)
    IN /\ Len(all) <= Len(log)
       /\ \A p \in 1..Len(all) : all[p] = log[p].text
       /\ \A k \in 1..Len(panels) :
            \A p \in 1..Len(panels[k].content) :
              Offset(panels, k) + p <= Len(log)
                => log[Offset(panels, k) + p].tracked = panels[k].author

\* Order and uniqueness alone, which hold.
TextPanelsFollowArrival ==
  script = "swarm" =>
    LET log == TextLog(hist, "")
        all == ConcatContent(PanelsOfKind(TurnPanels, "text"))
    IN /\ Len(all) <= Len(log)
       /\ \A p \in 1..Len(all) : all[p] = log[p].text

\* Text that arrived before any author was named is in the panel of the
\* author named after it.
EarlyTextMisattributed ==
  /\ script = "swarm"
  /\ Len(hist) = 2
  /\ TextEvent(hist[1]) /\ hist[1].author = ""
  /\ TextEvent(hist[2]) /\ hist[2].author = "A1"
  /\ PanelsOfKind(TurnPanels, "text")
       = <<Panel("text", "A1", "",
                 TextDelta(hist[1]) \o TextDelta(hist[2]), <<>>)>>

\* ---------------------------------------------------------------------
\* C37: in every streaming script no empty panel is finalized: every
\* printed text or reasoning panel has content, and so has the response
\* frame 1_azure_openai_chat_agent.py finalizes in its display (it prints no
\* text panel); every function-call panel printed by
\* 1_azure_openai_chat_agent.py has a function name; and a fold that changes
\* the author or the executor while the text buffer is empty prints no text
\* panel.
FinalizedPanels ==
  console \o (IF script = "chat" THEN <<live>> ELSE <<>>)

NoEmptyPanel ==
  \A i \in 1..Len(FinalizedPanels) :
    LET p == FinalizedPanels[i]
    IN /\ (p.kind \in {"text", "reasoning"}) => p.content # <<>>
       /\ (script = "chat" /\ p.kind = "function_call") => p.name # ""

ChangeOnEmptyBuffer ==
  /\ Folds
  /\ accumulated_text = <<>>
  /\ \/ script = "swarm" /\ previous_author' # previous_author
     \/ script = "tool" /\ current_author' # current_author
     \/ script = "swarm4" /\ current_executor' # current_executor

C37_NoEmptyPanelFinalized ==
  [][/\ NoEmptyPanel'
     /\ ChangeOnEmptyBuffer => TextPrints(stepOut') = <<>>
    ]_vars

\* 4_swarm.py moved from executor E1, whose one update carried no text, to
\* E2, and nothing was printed for E1.
C37_Witness ==
  /\ script = "swarm4"
  /\ Len(hist) = 2
  /\ hist[1].kind = "AgentRunUpdateEvent"
  /\ hist[2].kind = "AgentRunUpdateEvent"
  /\ hist[1].executor_id # hist[2].executor_id
  /\ current_executor = hist[2].executor_id
  /\ accumulated_text # <<>>
  /\ PanelsOfKind(TurnPanels, "text") = <<>>

\* ---------------------------------------------------------------------
\* The delta events of the run, and where their texts are in the output.
DeltaEvents == SelectSeq(hist, LAMBDA e : e.kind = "MagenticAgentDeltaEvent")

DeltaPositions == {i \in 1..Len(console) : console[i].kind = "delta"}

\* The agent of the delta printed at position i: deltas are printed in
\* arrival order.
DeltaAgent(i) ==
  DeltaEvents[Cardinality({j \in DeltaPositions : j <= i})].agent_id

LastHeaderBefore(i) ==
  Max({0} \cup {j \in 1..(i - 1) : console[j].kind = "header"})

EveryDeltaUnderItsHeader ==
  script = "magentic" =>
    /\ Cardinality(DeltaPositions) = Len(DeltaEvents)
    /\ \A i \in DeltaPositions :
         /\ LastHeaderBefore(i) > 0
         /\ console[LastHeaderBefore(i)].author = DeltaAgent(i)

Headers(ops) ==
  SelectSeq(ops, LAMBDA o : o.op = "print" /\ o.panel.kind = "header")

IsAgentDelta(e) == e.kind = "MagenticAgentDeltaEvent"

ClosesLine(e) ==
  e.kind \in {"MagenticAgentMessageEvent", "MagenticFinalResultEvent"}

\* C38: in on_event of 2_magentic_orchestration.py every printed delta of
\* agent X comes after a header for X with no header or delta of another
\* agent in between; a header is printed exactly when a delta arrives whose
\* agent differs from the last streaming agent or while no stream line is
\* open, and it names that agent; consecutive deltas of one agent share one
\* header; an agent-message or final-result event closes the open line, so
\* the delta after it prints a new header.
C38_DeltaUnderOwnHeader ==
  [][(script = "magentic" /\ Folds) =>
       LET e == FoldedEvent
           shown == Headers(stepOut')
       IN /\ EveryDeltaUnderItsHeader'
          /\ (shown # <<>>) <=>
               (IsAgentDelta(e) /\ (last_stream_agent_id # e.agent_id
                               \/ ~stream_line_open))
          /\ Len(shown) <= 1
          /\ (shown # <<>>) =>
               /\ shown[1].panel.author = e.agent_id
               /\ stepOut'[Len(stepOut') - 1] = shown[1]
          /\ IsAgentDelta(e) =>
               stepOut'[Len(stepOut')] = MagenticDelta(e.text)
          /\ (hist # <<>> /\ IsAgentDelta(LastEvent) /\ IsAgentDelta(e)
              /\ LastEvent.agent_id = e.agent_id) => shown = <<>>
          /\ ClosesLine(e) => ~stream_line_open'
          /\ (hist # <<>> /\ ClosesLine(LastEvent) /\ IsAgentDelta(e))
               => shown # <<>>
    ]_vars

\* Two deltas of the researcher shared one header, the researcher's message
\* closed the line, and the researcher's next delta got a header of its own.
C38_Witness ==
  /\ script = "magentic"
  /\ Len(hist) = 4
  /\ IsAgentDelta(hist[1]) /\ hist[1].agent_id = "researcher"
  /\ hist[2] = hist[1]
  /\ hist[3].kind = "MagenticAgentMessageEvent"
  /\ hist[4] = hist[1]
  /\ Len(PanelsOfKind(console, "header")) = 2
  /\ Len(PanelsOfKind(console, "delta")) = 3
  /\ ~(\E i \in 1..Len(console) :
         console[i].kind = "header" /\ console[i].author # "researcher")

====
